---- MODULE Spec2Model ----
(***************************************************************************)
(* A model of the Uni language interpreter: the token stream, the Pratt    *)
(* parser (Parser.Parse and the parse* methods) and the tree-walking       *)
(* evaluator with its parent-linked scopes (Evaluator.Eval and the eval*   *)
(* functions).  Parser methods are operators over a parser record and      *)
(* return the parser record together with the node; evaluator functions    *)
(* are operators over an evaluation record (the scope arena, the printed   *)
(* output, the fault flag) and return it together with the value.          *)
(***************************************************************************)
EXTENDS Integers, Sequences, FiniteSets, TLC

(***************************************************************************)
(* Tokens                                                                  *)
(***************************************************************************)
ILLEGAL == "ILLEGAL"
EOF == "EOF"
COMMA == ","
COLON == ":"
LPAREN == "("
RPAREN == ")"
LBRACKET == "["
RBRACKET == "]"
LCURLY == "{"
RCURLY == "}"
IDENT == "IDENT"
INT == "INT"
FLOAT == "FLOAT"
STRING_ == "STRING"
TRUE_ == "TRUE"
FALSE_ == "FALSE"
VAR == "VAR"
IF_ == "IF"
ELSE_ == "ELSE"
WHILE == "WHILE"
FOR == "FOR"
IN_ == "IN"
FN == "FN"
RETURN == "RETURN"
LEN == "LEN"
PRINT == "PRINT"
PRINTLN == "PRINTLN"
ASSIGN == "="
PLUS == "+"
MINUS == "-"
ASTERISK == "*"
SLASH == "/"
NOT == "!"
LT == "<"
GT == ">"
LEQ == "<="
GEQ == ">="
EQ == "=="
NEQ == "!="
OR == "OR"
AND == "AND"

NewToken(t, v) == [Type |-> t, Value |-> v]

\* The zero Token: what a receive from the closed token channel yields, and
\* the value of a Token field that was never assigned.
ZeroToken == [Type |-> "", Value |-> ""]

\* The nil interface value (a nil Statement, Expression or runtime value).
Nil == [k |-> "nil"]

(***************************************************************************)
(* Precedences                                                             *)
(***************************************************************************)
LOWEST == 1
EQUALS == 2
BOOLOP == 3
GREATER == 4
SUM == 5
PRODUCT == 6
PREFIX == 7

\* The table with the levels of the additive and the multiplicative operators
\* exchanged.
getPrecedenceSwapped(in) ==
    CASE in \in {EQ, NEQ} -> EQUALS
      [] in \in {OR, AND} -> BOOLOP
      [] in \in {LT, GT, LEQ, GEQ} -> GREATER
      [] in \in {PLUS, MINUS} -> PRODUCT
      [] in \in {ASTERISK, SLASH} -> SUM
      [] OTHER -> LOWEST

getPrecedence(in) ==
    CASE in \in {EQ, NEQ} -> EQUALS
      [] in \in {OR, AND} -> BOOLOP
      [] in \in {LT, GT, LEQ, GEQ} -> GREATER
      [] in \in {PLUS, MINUS} -> SUM
      [] in \in {ASTERISK, SLASH} -> PRODUCT
      [] OTHER -> LOWEST

(***************************************************************************)
(* strconv: the literal texts the model uses and their values              *)
(***************************************************************************)
IntText == <<"0", "1", "2", "3", "4", "5", "6", "7", "8", "9">>

ParseInt(s) ==
    IF \E i \in 1..Len(IntText) : IntText[i] = s
    THEN (CHOOSE i \in 1..Len(IntText) : IntText[i] = s) - 1
    ELSE 0

ParseBool(s) == s = "true"

(***************************************************************************)
(* Parser                                                                  *)
(***************************************************************************)
\* tokens is what the token channel still holds; fatal is set by log.Fatalf
\* (the process is gone: nothing the parser does afterwards has an effect);
\* hang is set when a loop of the parser is found to repeat without
\* consuming a token (it then runs forever).
NewParser(tokens) ==
    [tokens |-> tokens, currentToken |-> ZeroToken, peekToken |-> ZeroToken,
     errors |-> 0, fatal |-> FALSE, hang |-> FALSE]

Dead(p) == p.fatal \/ p.hang

next(p) ==
    IF Dead(p) THEN p
    ELSE [p EXCEPT !.currentToken = p.peekToken,
                   !.peekToken = IF p.tokens = <<>> THEN ZeroToken ELSE Head(p.tokens),
                   !.tokens = IF p.tokens = <<>> THEN <<>> ELSE Tail(p.tokens)]

\* The parser's position in the token stream.
Pos(p) == <<p.currentToken, p.peekToken, Len(p.tokens)>>

Hang(p) == IF Dead(p) THEN p ELSE [p EXCEPT !.hang = TRUE]

AddError(p) == IF Dead(p) THEN p ELSE [p EXCEPT !.errors = @ + 1]

R(p, n) == [p |-> p, n |-> n]

expectCurrent(p, tokenTypes) ==
    IF p.currentToken.Type \in tokenTypes
    THEN [p |-> p, ok |-> TRUE]
    ELSE [p |-> IF Dead(p) THEN p ELSE [p EXCEPT !.fatal = TRUE], ok |-> FALSE]

ZeroIdentifier == [k |-> "Identifier", Token |-> ZeroToken, IsFunctionCall |-> FALSE]

parseIdentifier(p) ==
    LET e == expectCurrent(p, {IDENT})
    IN  IF ~e.ok THEN R(e.p, Nil)
        ELSE R(next(p), [k |-> "Identifier", Token |-> p.currentToken,
                         IsFunctionCall |-> p.peekToken.Type = LPAREN])

parseBoolean(p) ==
    LET e == expectCurrent(p, {TRUE_, FALSE_})
    IN  IF ~e.ok THEN R(e.p, Nil)
        ELSE R(next(p), [k |-> "Boolean", Value |-> ParseBool(p.currentToken.Value)])

parseInteger(p) ==
    LET e == expectCurrent(p, {INT})
    IN  IF ~e.ok THEN R(e.p, Nil)
        ELSE R(next(p), [k |-> "Integer", Value |-> ParseInt(p.currentToken.Value)])

parseFloat(p) ==
    LET e == expectCurrent(p, {FLOAT})
    IN  IF ~e.ok THEN R(e.p, Nil)
        ELSE R(next(p), [k |-> "Float", Value |-> p.currentToken.Value])

parseString(p) ==
    LET e == expectCurrent(p, {STRING_})
    IN  IF ~e.ok THEN R(e.p, Nil)
        ELSE R(next(p), [k |-> "String", Value |-> p.currentToken.Value])

BinaryOperators == {OR, AND, PLUS, MINUS, ASTERISK, SLASH, EQ, NEQ, LT, GT, LEQ, GEQ}

\* parse(method, p, a) is the call of the Parser method of that name on p with
\* the arguments a; the methods that call each other call through it.
RECURSIVE parse(_, _, _)
RECURSIVE parseParameters(_, _)

parseVariable(p) ==
    LET isNew == p.currentToken.Type = VAR
        p1 == IF isNew THEN next(p) ELSE p
        name == parseIdentifier(p1)
        e == expectCurrent(name.p, {ASSIGN})
        value == parse("parseExpression", next(name.p), LOWEST)
    IN  IF ~e.ok THEN R(e.p, Nil)
        ELSE R(value.p, [k |-> "Variable", Name |-> name.n, Value |-> value.n,
                         IsNew |-> isNew])

parseIf(p) ==
    LET cond == parse("parseExpression", next(p), LOWEST)
        cons == parse("parseBlock", cond.p, Nil)
        alt == parse("parseBlock", next(cons.p), Nil)
    IN  IF cons.p.currentToken.Type = ELSE_
        THEN R(alt.p, [k |-> "If", Condition |-> cond.n, Consequence |-> cons.n,
                       Alternative |-> alt.n])
        ELSE R(cons.p, [k |-> "If", Condition |-> cond.n, Consequence |-> cons.n,
                        Alternative |-> Nil])

parseWhile(p) ==
    LET cond == parse("parseExpression", next(p), LOWEST)
        e == expectCurrent(cond.p, {LCURLY})
        cons == parse("parseBlock", cond.p, Nil)
    IN  IF ~e.ok THEN R(e.p, Nil)
        ELSE R(cons.p, [k |-> "While", Condition |-> cond.n, Consequence |-> cons.n])

parseFor(p) ==
    LET key == parseIdentifier(next(p))
        hasValue == key.p.currentToken.Type = COMMA
        value == IF hasValue THEN parseIdentifier(next(key.p))
                 ELSE R(key.p, ZeroIdentifier)
        e1 == expectCurrent(value.p, {IN_})
        cond == parse("parseExpression", next(value.p), LOWEST)
        e2 == expectCurrent(cond.p, {LCURLY})
        cons == parse("parseBlock", cond.p, Nil)
    IN  IF ~e1.ok THEN R(e1.p, Nil)
        ELSE IF ~e2.ok THEN R(e2.p, Nil)
        ELSE R(cons.p, [k |-> "For", Key |-> key.n, Value |-> value.n,
                        Condition |-> cond.n, Consequence |-> cons.n])

\* for p.currentToken.Type != RPAREN { append(parseIdentifier()); skip a comma }
parseParameters(p, params) ==
    IF Dead(p) \/ p.currentToken.Type = RPAREN THEN R(p, params)
    ELSE LET id == parseIdentifier(p)
             p1 == IF id.p.currentToken.Type = COMMA THEN next(id.p) ELSE id.p
         IN  parseParameters(p1, Append(params, id.n))

parseFunction(p) ==
    LET name == parseIdentifier(next(p))
        e1 == expectCurrent(name.p, {LPAREN})
        params == parseParameters(next(name.p), <<>>)
        p2 == next(params.p)
        e2 == expectCurrent(p2, {LCURLY})
        body == parse("parseBlock", p2, Nil)
    IN  IF ~e1.ok THEN R(e1.p, Nil)
        ELSE IF ~e2.ok THEN R(e2.p, Nil)
        ELSE R(body.p, [k |-> "Function", Name |-> name.n, Parameters |-> params.n,
                        Body |-> body.n])

parseReturn(p) ==
    LET value == parse("parseExpression", next(p), LOWEST)
    IN  R(value.p, [k |-> "Return", Value |-> value.n])

\* for p.currentToken.Type != RCURLY { append(parseStatement()) }
parseBlockLoop(p, statements) ==
    IF Dead(p) \/ p.currentToken.Type = RCURLY THEN R(p, statements)
    ELSE LET s == parse("parseStatement", p, Nil)
         IN  IF ~Dead(s.p) /\ Pos(s.p) = Pos(p) THEN R(Hang(s.p), statements)
             ELSE parse("parseBlockLoop", s.p, Append(statements, s.n))

parseBlock(p) ==
    LET b == parse("parseBlockLoop", next(p), <<>>)
    IN  R(next(b.p), [k |-> "Block", Statements |-> b.n])

parseStatement(p) ==
    LET t == p.currentToken.Type
    IN  CASE t = VAR -> parseVariable(p)
          [] t = IF_ -> parseIf(p)
          [] t = WHILE -> parseWhile(p)
          [] t = FOR -> parseFor(p)
          [] t = FN -> parseFunction(p)
          [] t = RETURN -> parseReturn(p)
          [] t = LCURLY -> parse("parseBlock", p, Nil)
          [] t = IDENT /\ p.peekToken.Type = ASSIGN -> parseVariable(p)
          [] OTHER -> parse("parseExpression", p, LOWEST)

\* The loops of parseArray, parseCall and parsePrint:
\* for p.currentToken.Type != close { append(parseExpression(LOWEST)); skip a comma }
parseItems(p, close, items) ==
    IF Dead(p) \/ p.currentToken.Type = close THEN R(p, items)
    ELSE LET e == parse("parseExpression", p, LOWEST)
             p1 == IF e.p.currentToken.Type = COMMA THEN next(e.p) ELSE e.p
         IN  IF ~Dead(p1) /\ Pos(p1) = Pos(p) THEN R(Hang(p1), items)
             ELSE parse("parseItems", p1, <<close, Append(items, e.n)>>)

parseArray(p) ==
    LET items == parse("parseItems", next(p), <<RBRACKET, <<>>>>)
    IN  R(next(items.p), [k |-> "Array", Items |-> items.n])

\* m.Items[key] = value: a Go map keyed by the key expression; the model keeps
\* the entries in insertion order, a repeated key overwriting its entry.
MapPut(items, key, value) ==
    IF \E i \in 1..Len(items) : items[i].key = key
    THEN [i \in 1..Len(items) |->
            IF items[i].key = key THEN [key |-> key, value |-> value] ELSE items[i]]
    ELSE Append(items, [key |-> key, value |-> value])

\* Whether Go can hash the expression n as a key of Map.Items: Array, Call
\* and Print hold a slice and Map a map, and an expression that holds one of
\* these cannot be hashed either.
RECURSIVE Comparable(_)
Comparable(n) ==
    CASE n.k \in {"Array", "Call", "Print", "Map"} -> FALSE
      [] n.k = "Index" -> Comparable(n.Index) /\ Comparable(n.Subject)
      [] n.k = "UnaryOperation" -> Comparable(n.Expression)
      [] n.k = "BinaryOperation" -> Comparable(n.Left) /\ Comparable(n.Right)
      [] n.k = "Len" -> Comparable(n.Subject)
      [] OTHER -> TRUE

\* The loop of parseMap.  m.Items[key] = ... with a key that cannot be hashed
\* is a run-time panic of the parser: the process is gone, as after
\* log.Fatalf.
parseMapLoop(p, items) ==
    IF Dead(p) \/ p.currentToken.Type = RCURLY THEN [p |-> p, n |-> items, ok |-> TRUE]
    ELSE LET key == parse("parseExpression", p, LOWEST)
             e == expectCurrent(key.p, {COLON})
             value == parse("parseExpression", next(key.p), LOWEST)
             p1 == IF value.p.currentToken.Type = COMMA THEN next(value.p) ELSE value.p
         IN  IF ~e.ok THEN [p |-> e.p, n |-> items, ok |-> FALSE]
             ELSE IF ~Dead(value.p) /\ ~Comparable(key.n)
             THEN [p |-> [value.p EXCEPT !.fatal = TRUE], n |-> items, ok |-> FALSE]
             ELSE parse("parseMapLoop", p1, MapPut(items, key.n, value.n))

parseMap(p) ==
    LET items == parse("parseMapLoop", next(p), <<>>)
    IN  IF ~items.ok THEN R(items.p, Nil)
        ELSE R(next(items.p), [k |-> "Map", Items |-> items.n])

parseIndex(p, left) ==
    LET index == parse("parseExpression", next(p), LOWEST)
    IN  R(next(index.p), [k |-> "Index", Index |-> index.n, Subject |-> left])

parseCall(p, left) ==
    LET args == parse("parseItems", next(p), <<RPAREN, <<>>>>)
    IN  R(next(args.p), [k |-> "Call", Identifier |-> left, Arguments |-> args.n])

parseUnaryOperation(p) ==
    LET e == expectCurrent(p, {PLUS, MINUS, NOT})
        operand == parse("parseExpression", next(p), PREFIX)
    IN  IF ~e.ok THEN R(e.p, Nil)
        ELSE R(operand.p, [k |-> "UnaryOperation", Token |-> p.currentToken,
                           Expression |-> operand.n])

parseBinaryOperation(p, left) ==
    LET precedence == getPrecedence(p.currentToken.Type)
        right == parse("parseExpression", next(p), precedence)
    IN  R(right.p, [k |-> "BinaryOperation", Token |-> p.currentToken,
                    Left |-> left, Right |-> right.n])

parseLen(p) ==
    LET subject == parse("parseExpression", next(next(p)), LOWEST)
    IN  R(next(subject.p), [k |-> "Len", Subject |-> subject.n])

parsePrint(p) ==
    LET isNewLine == p.currentToken.Type = PRINTLN
        p1 == next(p)
        e == expectCurrent(p1, {LPAREN})
        args == parse("parseItems", next(p1), <<RPAREN, <<>>>>)
    IN  IF ~e.ok THEN R(e.p, Nil)
        ELSE R(next(args.p), [k |-> "Print", Args |-> args.n, IsNewLine |-> isNewLine])

\* for precedence < getPrecedence(p.currentToken.Type) { left = parseBinaryOperation(left) }
parseExpressionLoop(p, left, precedence) ==
    IF Dead(p) \/ ~(precedence < getPrecedence(p.currentToken.Type)) THEN R(p, left)
    ELSE IF p.currentToken.Type \in BinaryOperators
         THEN LET b == parseBinaryOperation(p, left)
              IN  parse("parseExpressionLoop", b.p, <<b.n, precedence>>)
         ELSE R(AddError(p), Nil)

parseExpression(p, precedence) ==
    LET t == p.currentToken.Type
        id == parseIdentifier(p)
        inner == parse("parseExpression", next(p), LOWEST)
        left ==
            CASE t \in {TRUE_, FALSE_} -> parseBoolean(p)
              [] t = INT -> parseInteger(p)
              [] t = FLOAT -> parseFloat(p)
              [] t = STRING_ -> parseString(p)
              [] t \in {PLUS, MINUS, NOT} -> parseUnaryOperation(p)
              [] t = IDENT ->
                    CASE id.p.currentToken.Type = LBRACKET -> parseIndex(id.p, id.n)
                      [] id.p.currentToken.Type = LPAREN -> parseCall(id.p, id.n)
                      [] OTHER -> id
              [] t = LPAREN -> R(next(inner.p), inner.n)
              [] t = LBRACKET -> parseArray(p)
              [] t = LCURLY -> parseMap(p)
              [] t = LEN -> parseLen(p)
              [] t \in {PRINT, PRINTLN} -> parsePrint(p)
              [] OTHER -> R(AddError(p), Nil)
    IN  IF t \in {TRUE_, FALSE_, INT, FLOAT, STRING_, PLUS, MINUS, NOT, IDENT, LPAREN,
                  LBRACKET, LCURLY, LEN, PRINT, PRINTLN}
        THEN parse("parseExpressionLoop", left.p, <<left.n, precedence>>)
        ELSE left

parse(method, p, a) ==
    CASE method = "parseStatement" -> parseStatement(p)
      [] method = "parseBlock" -> parseBlock(p)
      [] method = "parseBlockLoop" -> parseBlockLoop(p, a)
      [] method = "parseExpression" -> parseExpression(p, a)
      [] method = "parseExpressionLoop" -> parseExpressionLoop(p, a[1], a[2])
      [] method = "parseItems" -> parseItems(p, a[1], a[2])
      [] method = "parseMapLoop" -> parseMapLoop(p, a)

(***************************************************************************)
(* Runtime values                                                          *)
(***************************************************************************)
\* A value is Nil or a record tagged with its Go dynamic type: bool, int64,
\* int (the type of len() and of a range index), float64, string, array
\* ([]any), map (map[any]any) or function (a Function node).
Bool(b) == [k |-> "bool", v |-> b]
Int64(n) == [k |-> "int64", v |-> n]
GoInt(n) == [k |-> "int", v |-> n]
Str(s) == [k |-> "string", v |-> s]
ArrayOf(items) == [k |-> "array", v |-> items]
MapOf(items) == [k |-> "map", v |-> items]

\* float64 values are kept as exact fractions n/d (d > 0), which is what IEEE
\* 754 computes as long as the operands and the result are small dyadic
\* numbers; d = 0 stands for the result of a division by zero.
RECURSIVE Gcd(_, _)
Gcd(a, b) == IF b = 0 THEN a ELSE Gcd(b, a % b)

Abs(n) == IF n < 0 THEN -n ELSE n

Float64(n, d) ==
    LET g == Gcd(Abs(n), Abs(d))
        sgn == IF d < 0 THEN -1 ELSE 1
    IN  IF g = 0 THEN [k |-> "float64", n |-> 0, d |-> 0]
        ELSE [k |-> "float64", n |-> sgn * (n \div g), d |-> sgn * (d \div g)]

FloatText == <<"0.0", "0.5", "1.0", "1.5", "2.0", "2.5">>

\* strconv.ParseFloat on the literal texts of the model: halves from 0.0 on.
ParseFloat(s) ==
    IF \E i \in 1..Len(FloatText) : FloatText[i] = s
    THEN Float64((CHOOSE i \in 1..Len(FloatText) : FloatText[i] = s) - 1, 2)
    ELSE Float64(0, 1)

\* The characters of the string values the model uses (range over a string,
\* len of a string).
Runes(s) ==
    CASE s = "" -> <<>>
      [] s = "a" -> <<"a">>
      [] s = "b" -> <<"b">>
      [] s = "ab" -> <<"a", "b">>
      [] s = "ba" -> <<"b", "a">>
      [] s = "abc" -> <<"a", "b", "c">>
      [] OTHER -> <<s>>

\* Go integer division truncates toward zero.
\* The quotient rounded down instead of toward zero
GoDivFloor(a, b) ==
    IF b > 0 THEN a \div b ELSE (-a) \div (-b)

GoDiv(a, b) ==
    IF (a >= 0) = (b >= 0) THEN Abs(a) \div Abs(b) ELSE -(Abs(a) \div Abs(b))

(***************************************************************************)
(* Scope                                                                   *)
(***************************************************************************)
\* The evaluation record: scopes is the arena of every Scope allocated so far
\* (a *Scope is an index into it, 0 is the nil *Scope), out the calls made to
\* fmt.Print/fmt.Println, panic whether a Go runtime panic ended the process,
\* steps the loop iterations and calls made so far.
NoBinding == [n \in {} |-> Nil]

EmptyScope(parent) == [variables |-> NoBinding, functions |-> NoBinding, parent |-> parent]

\* seed stands for the random starting points of the run's range clauses
\* over Go maps: it fixes the order in which the entries of a map are visited.
NewEval == [scopes |-> <<EmptyScope(0)>>, out |-> <<>>, panic |-> FALSE,
            timeout |-> FALSE, steps |-> 0, seed |-> 0]

\* The seeds of the model.
MaxMapSeed == 1

\* The order of a range over a Go map with the given entries: the seed picks
\* one of the orders, seed 0 the order of the sequence that stands for the
\* map.
RECURSIVE Range(_, _)
Range(items, seed) ==
    IF items = <<>> THEN <<>>
    ELSE LET n == Len(items)
             i == (seed % n) + 1
         IN  <<items[i]>>
                \o Range([j \in 1..n - 1 |-> IF j < i THEN items[j] ELSE items[j + 1]],
                         seed \div n)

Stopped(e) == e.panic \/ e.timeout

Panic(e) == IF Stopped(e) THEN e ELSE [e EXCEPT !.panic = TRUE]

\* MaxSteps bounds the loop iterations and calls of one run of the model.
MaxSteps == 40

Step(e) ==
    IF Stopped(e) THEN e
    ELSE IF e.steps >= MaxSteps THEN [e EXCEPT !.timeout = TRUE]
    ELSE [e EXCEPT !.steps = @ + 1]

V(e, v) == [e |-> e, v |-> v]

\* NewScope returns the record with the new scope appended; the new *Scope is
\* Len(scopes) of the result.
\* NewScope without a parent.
NewScopeDetached(e, scope) ==
    IF Stopped(e) THEN e ELSE [e EXCEPT !.scopes = Append(@, EmptyScope(0))]

NewScope(e, scope) ==
    IF Stopped(e) THEN e ELSE [e EXCEPT !.scopes = Append(@, EmptyScope(scope))]

Top(e) == Len(e.scopes)

RECURSIVE GetVariable(_, _, _)
GetVariable(e, scope, identifier) ==
    LET s == e.scopes[scope]
        name == identifier.Token.Value
    IN  IF name \in DOMAIN s.variables THEN [v |-> s.variables[name], ok |-> TRUE]
        ELSE IF s.parent # 0 THEN GetVariable(e, s.parent, identifier)
        ELSE [v |-> Nil, ok |-> FALSE]

SetVariable(e, scope, identifier, value) ==
    IF Stopped(e) THEN e
    ELSE LET name == identifier.Token.Value
         IN  [e EXCEPT !.scopes[scope].variables =
                 [n \in DOMAIN @ \cup {name} |-> IF n = name THEN value ELSE @[n]]]

RECURSIVE GetFunction(_, _, _)
GetFunction(e, scope, identifier) ==
    LET s == e.scopes[scope]
        name == identifier.Token.Value
    IN  IF name \in DOMAIN s.functions THEN [v |-> s.functions[name], ok |-> TRUE]
        ELSE IF s.parent # 0 THEN GetFunction(e, s.parent, identifier)
        ELSE [v |-> Nil, ok |-> FALSE]

SetFunction(e, scope, identifier, value) ==
    IF Stopped(e) THEN e
    ELSE LET name == identifier.Token.Value
         IN  [e EXCEPT !.scopes[scope].functions =
                 [n \in DOMAIN @ \cup {name} |-> IF n = name THEN value ELSE @[n]]]

GetParent(e, scope) == e.scopes[scope].parent

(***************************************************************************)
(* Evaluator: expressions                                                  *)
(***************************************************************************)
\* eval(function, a, scope, e) is the call of the evaluator function of that
\* name with the arguments a in the given scope; the functions that call each
\* other call through it.
RECURSIVE eval(_, _, _, _)

evalBoolean(in, scope, e) == V(e, Bool(in.Value))

evalInteger(in, scope, e) == V(e, Int64(in.Value))

evalFloat(in, scope, e) == V(e, ParseFloat(in.Value))

evalString(in, scope, e) == V(e, Str(in.Value))

\* Evaluates exprs[i..] in order in scope; the values are appended to acc.
evalExpressions(exprs, i, acc, scope, e) ==
    IF i > Len(exprs) THEN V(e, acc)
    ELSE LET r == eval("evalExpression", exprs[i], scope, e)
         IN  eval("evalExpressions", <<exprs, i + 1, Append(acc, r.v)>>, scope, r.e)

evalArray(in, scope, e) ==
    LET r == eval("evalExpressions", <<in.Items, 1, <<>>>>, scope, e)
    IN  V(r.e, ArrayOf(r.v))

\* A slice or a map used as a map key is a runtime panic (unhashable type).
Hashable(v) == v.k \notin {"array", "map"}

\* The loop of evalMap over the items in the order of the range; acc holds
\* the assignments m[key] = value made so far, each with the place at of its
\* item in the literal.
evalMapLoop(items, i, acc, scope, e) ==
    IF i > Len(items) THEN V(e, acc)
    ELSE LET key == eval("evalExpression", items[i].key, scope, e)
             value == eval("evalExpression", items[i].value, scope, key.e)
         IN  IF ~Hashable(key.v) THEN V(Panic(value.e), acc)
             ELSE eval("evalMapLoop",
                       <<items, i + 1,
                         Append(acc, [at |-> items[i].at, key |-> key.v, value |-> value.v])>>,
                       scope, value.e)

\* The map after the assignments: a later assignment to a key replaces the
\* value of an earlier one.  The sequence that stands for the map lists its
\* keys by the place of their first item in the literal, whatever the order
\* of the assignments.
RECURSIVE Assigned(_, _, _)
Assigned(assignments, i, m) ==
    IF i > Len(assignments) THEN m
    ELSE Assigned(assignments, i + 1, MapPut(m, assignments[i].key, assignments[i].value))

MapAfter(assignments) ==
    LET m == Assigned(assignments, 1, <<>>)
        First(key) ==
            CHOOSE a \in {assignments[j].at : j \in 1..Len(assignments)} :
                /\ \E j \in 1..Len(assignments) :
                      assignments[j].at = a /\ assignments[j].key = key
                /\ \A j \in 1..Len(assignments) :
                      assignments[j].key = key => assignments[j].at >= a
    IN  SortSeq(m, LAMBDA x, y : First(x.key) < First(y.key))

evalMap(in, scope, e) ==
    LET items == [i \in 1..Len(in.Items) |->
                    [at |-> i, key |-> in.Items[i].key, value |-> in.Items[i].value]]
        r == eval("evalMapLoop", <<Range(items, e.seed), 1, <<>>>>, scope, e)
    IN  V(r.e, MapOf(MapAfter(r.v)))

MapGet(items, key) ==
    IF \E i \in 1..Len(items) : items[i].key = key
    THEN items[CHOOSE i \in 1..Len(items) : items[i].key = key].value
    ELSE Nil

evalIndex(in, scope, e) ==
    LET subject == eval("evalExpression", in.Subject, scope, e)
        index == eval("evalExpression", in.Index, scope, subject.e)
    IN  CASE subject.v.k = "array" ->
                IF index.v.k = "int64" /\ index.v.v >= 0 /\ index.v.v < Len(subject.v.v)
                THEN V(index.e, subject.v.v[index.v.v + 1])
                ELSE V(Panic(index.e), Nil)
          [] subject.v.k = "map" ->
                IF Hashable(index.v) THEN V(index.e, MapGet(subject.v.v, index.v))
                ELSE V(Panic(index.e), Nil)
          [] OTHER -> V(subject.e, Nil)

evalIdentifier(identifier, scope, e) ==
    IF identifier.IsFunctionCall
    THEN V(e, GetFunction(e, scope, identifier).v)
    ELSE V(e, GetVariable(e, scope, identifier).v)

evalUnaryOperation(in, scope, e) ==
    LET r == eval("evalExpression", in.Expression, scope, e)
        t == r.v
        op == in.Token.Type
    IN  CASE t.k = "bool" /\ op = NOT -> V(r.e, Bool(~t.v))
          [] t.k = "int64" /\ op = PLUS -> V(r.e, t)
          [] t.k = "int64" /\ op = MINUS -> V(r.e, Int64(-1 * t.v))
          [] t.k = "float64" /\ op = PLUS -> V(r.e, t)
          [] t.k = "float64" /\ op = MINUS -> V(r.e, Float64(-1 * t.n, t.d))
          [] OTHER -> V(r.e, Nil)

evalBinaryOperationBoolBool(left, right, operator) ==
    CASE operator.Type = EQ -> Bool(left = right)
      [] operator.Type = NEQ -> Bool(left # right)
      [] operator.Type = OR -> Bool(left \/ right)
      [] operator.Type = AND -> Bool(left /\ right)
      [] OTHER -> Nil

\* The value, or "panic" for the integer division by zero.
evalBinaryOperationIntInt(left, right, operator) ==
    CASE operator.Type = LT -> Bool(left < right)
      [] operator.Type = GT -> Bool(left > right)
      [] operator.Type = LEQ -> Bool(left <= right)
      [] operator.Type = GEQ -> Bool(left >= right)
      [] operator.Type = EQ -> Bool(left = right)
      [] operator.Type = NEQ -> Bool(left # right)
      [] operator.Type = PLUS -> Int64(left + right)
      [] operator.Type = MINUS -> Int64(left - right)
      [] operator.Type = ASTERISK -> Int64(left * right)
      [] operator.Type = SLASH ->
            IF right = 0 THEN [k |-> "panic"] ELSE Int64(GoDiv(left, right))
      [] OTHER -> Nil

evalBinaryOperationFloatFloat(left, right, operator) ==
    LET nan == (left.d = 0 /\ left.n = 0) \/ (right.d = 0 /\ right.n = 0)
        l == left.n * right.d
        r == right.n * left.d
    IN  CASE operator.Type = LT -> Bool(~nan /\ l < r)
          [] operator.Type = GT -> Bool(~nan /\ l > r)
          [] operator.Type = LEQ -> Bool(~nan /\ l <= r)
          [] operator.Type = GEQ -> Bool(~nan /\ l >= r)
          [] operator.Type = EQ -> Bool(~nan /\ left = right)
          [] operator.Type = NEQ -> Bool(nan \/ left # right)
          [] operator.Type = PLUS -> Float64(l + r, left.d * right.d)
          [] operator.Type = MINUS -> Float64(l - r, left.d * right.d)
          [] operator.Type = ASTERISK -> Float64(left.n * right.n, left.d * right.d)
          [] operator.Type = SLASH -> Float64(left.n * right.d, left.d * right.n)
          [] OTHER -> Nil

evalBinaryOperationIntFloat(left, right, operator) ==
    evalBinaryOperationFloatFloat(Float64(left, 1), right, operator)

evalBinaryOperationFloatInt(left, right, operator) ==
    evalBinaryOperationFloatFloat(left, Float64(right, 1), operator)

\* evalBinaryOperationStringString with the comparison == as well
evalBinaryOperationStringStringWithEq(left, right, operator) ==
    CASE operator.Type = PLUS -> Str(left \o right)
      [] operator.Type = EQ -> Bool(left = right)
      [] OTHER -> Nil

evalBinaryOperationStringString(left, right, operator) ==
    CASE operator.Type = PLUS -> Str(left \o right)
      [] OTHER -> Nil

\* The right operand is evaluated only when the left one is a bool, an int64,
\* a float64 or a string.
evalBinaryOperation(in, scope, e) ==
    LET l == eval("evalExpression", in.Left, scope, e)
        r == eval("evalExpression", in.Right, scope, l.e)
        left == l.v
        right == r.v
        ii == evalBinaryOperationIntInt(left.v, right.v, in.Token)
    IN  CASE left.k = "bool" ->
                IF right.k = "bool"
                THEN V(r.e, evalBinaryOperationBoolBool(left.v, right.v, in.Token))
                ELSE V(r.e, Nil)
          [] left.k = "int64" ->
                CASE right.k = "int64" ->
                        IF ii.k = "panic" THEN V(Panic(r.e), Nil) ELSE V(r.e, ii)
                  [] right.k = "float64" ->
                        V(r.e, evalBinaryOperationIntFloat(left.v, right, in.Token))
                  [] OTHER -> V(r.e, Nil)
          [] left.k = "float64" ->
                CASE right.k = "int64" ->
                        V(r.e, evalBinaryOperationFloatInt(left, right.v, in.Token))
                  [] right.k = "float64" ->
                        V(r.e, evalBinaryOperationFloatFloat(left, right, in.Token))
                  [] OTHER -> V(r.e, Nil)
          [] left.k = "string" ->
                IF right.k = "string"
                THEN V(r.e, evalBinaryOperationStringString(left.v, right.v, in.Token))
                ELSE V(r.e, Nil)
          [] OTHER -> V(l.e, Nil)

evalLen(in, scope, e) ==
    LET r == eval("evalExpression", in.Subject, scope, e)
    IN  CASE r.v.k = "string" -> V(r.e, GoInt(Len(Runes(r.v.v))))
          [] r.v.k = "array" -> V(r.e, GoInt(Len(r.v.v)))
          [] r.v.k = "map" -> V(r.e, GoInt(Len(r.v.v)))
          [] OTHER -> V(r.e, Nil)

evalPrint(in, scope, e) ==
    LET r == eval("evalExpressions", <<in.Args, 1, <<>>>>, scope, e)
    IN  IF Stopped(r.e) THEN V(r.e, Nil)
        ELSE V([r.e EXCEPT !.out = Append(@, [args |-> r.v, newline |-> in.IsNewLine])],
               Nil)

\* newScope.SetVariable(function.Parameters[i], evalExpression(argument, scope))
evalArguments(parameters, arguments, i, newScope, scope, e) ==
    IF i > Len(arguments) THEN e
    ELSE LET r == eval("evalExpression", arguments[i], scope, e)
         IN  eval("evalArguments", <<parameters, arguments, i + 1, newScope>>, scope,
                  SetVariable(r.e, newScope, parameters[i], r.v))

\* evalCall with the new scope's parent being the top-level scope instead of
\* the call-site scope.
evalCallDefinitionScope(in, scope, e) ==
    LET f == GetFunction(e, scope, in.Identifier)
        function == f.v
        e1 == NewScope(Step(e), 1)
        newScope == Top(e1)
        e2 == eval("evalArguments", <<function.Parameters, in.Arguments, 1, newScope>>,
                   scope, e1)
    IN  IF ~f.ok THEN V(e, Nil)
        ELSE IF Len(function.Parameters) # Len(in.Arguments) THEN V(e, Nil)
        ELSE eval("evalBlock", function.Body, newScope, e2)

\* evalCall evaluating the body but yielding no value.
evalCallDiscardsResult(in, scope, e) ==
    LET f == GetFunction(e, scope, in.Identifier)
        function == f.v
        e1 == NewScope(Step(e), scope)
        newScope == Top(e1)
        e2 == eval("evalArguments", <<function.Parameters, in.Arguments, 1, newScope>>,
                   scope, e1)
        result == eval("evalBlock", function.Body, newScope, e2)
    IN  IF ~f.ok THEN V(e, Nil)
        ELSE IF Len(function.Parameters) # Len(in.Arguments) THEN V(e, Nil)
        ELSE V(result.e, Nil)

\* evalCall without the comparison of the argument and parameter counts.
evalCallNoArityCheck(in, scope, e) ==
    LET f == GetFunction(e, scope, in.Identifier)
        function == f.v
        e1 == NewScope(Step(e), scope)
        newScope == Top(e1)
        n == IF Len(function.Parameters) < Len(in.Arguments)
             THEN Len(function.Parameters) ELSE Len(in.Arguments)
        e2 == eval("evalArguments",
                   <<function.Parameters, SubSeq(in.Arguments, 1, n), 1, newScope>>,
                   scope, e1)
    IN  IF ~f.ok THEN V(e, Nil)
        ELSE eval("evalBlock", function.Body, newScope, e2)

evalCall(in, scope, e) ==
    LET f == GetFunction(e, scope, in.Identifier)
        function == f.v
        e1 == NewScope(Step(e), scope)
        newScope == Top(e1)
        e2 == eval("evalArguments", <<function.Parameters, in.Arguments, 1, newScope>>,
                   scope, e1)
    IN  IF ~f.ok THEN V(e, Nil)
        ELSE IF Len(function.Parameters) # Len(in.Arguments) THEN V(e, Nil)
        ELSE eval("evalBlock", function.Body, newScope, e2)

evalExpression(expression, scope, e) ==
    IF Stopped(e) THEN V(e, Nil)
    ELSE LET t == expression.k
         IN  CASE t = "Boolean" -> evalBoolean(expression, scope, e)
               [] t = "Integer" -> evalInteger(expression, scope, e)
               [] t = "Float" -> evalFloat(expression, scope, e)
               [] t = "String" -> evalString(expression, scope, e)
               [] t = "Array" -> evalArray(expression, scope, e)
               [] t = "Map" -> evalMap(expression, scope, e)
               [] t = "Index" -> evalIndex(expression, scope, e)
               [] t = "Call" -> evalCall(expression, scope, e)
               [] t = "Identifier" -> evalIdentifier(expression, scope, e)
               [] t = "UnaryOperation" -> evalUnaryOperation(expression, scope, e)
               [] t = "BinaryOperation" -> evalBinaryOperation(expression, scope, e)
               [] t = "Len" -> evalLen(expression, scope, e)
               [] t = "Print" -> evalPrint(expression, scope, e)
               [] OTHER -> V(e, Nil)

(***************************************************************************)
(* Evaluator: statements                                                   *)
(***************************************************************************)
\* The loop of evalVariable for a reassignment: in every scope from the
\* current one up to the root in which the name resolves, the value is
\* evaluated in that scope and stored in that scope.
\* The loop of evalVariable without the test of GetVariable
evalVariableLoopAlwaysSets(in, scope, e) ==
    LET r == eval("evalExpression", in.Value, scope, e)
        e1 == SetVariable(r.e, scope, in.Name, r.v)
    IN  IF Stopped(e) THEN e
        ELSE IF GetParent(e, scope) = 0 THEN e1
        ELSE eval("evalVariableLoop", in, GetParent(e, scope), e1)

evalVariableLoop(in, scope, e) ==
    LET r == eval("evalExpression", in.Value, scope, e)
        e1 == IF GetVariable(e, scope, in.Name).ok
              THEN SetVariable(r.e, scope, in.Name, r.v)
              ELSE e
    IN  IF Stopped(e) THEN e
        ELSE IF GetParent(e, scope) = 0 THEN e1
        ELSE eval("evalVariableLoop", in, GetParent(e, scope), e1)

\* evalVariable with the declaration stored in the top-level scope
evalVariableDeclaresInRoot(in, scope, e) ==
    LET r == eval("evalExpression", in.Value, scope, e)
    IN  IF in.IsNew THEN V(SetVariable(r.e, 1, in.Name, r.v), Nil)
        ELSE V(eval("evalVariableLoop", in, scope, e), Nil)

evalVariable(in, scope, e) ==
    LET r == eval("evalExpression", in.Value, scope, e)
    IN  IF in.IsNew THEN V(SetVariable(r.e, scope, in.Name, r.v), Nil)
        ELSE V(eval("evalVariableLoop", in, scope, e), Nil)

\* evalIf taking every condition that is not true for false.
evalIfTruthy(in, scope, e) ==
    LET c == eval("evalExpression", in.Condition, scope, e)
        e1 == NewScope(c.e, scope)
    IN  IF c.v.k = "bool" /\ c.v.v THEN eval("evalBlock", in.Consequence, Top(e1), e1)
        ELSE IF in.Alternative # Nil THEN eval("evalBlock", in.Alternative, Top(e1), e1)
        ELSE V(c.e, Nil)

evalIf(in, scope, e) ==
    LET c == eval("evalExpression", in.Condition, scope, e)
        e1 == NewScope(c.e, scope)
    IN  IF c.v.k # "bool" THEN V(Panic(c.e), Nil)
        ELSE IF c.v.v THEN eval("evalBlock", in.Consequence, Top(e1), e1)
        ELSE IF in.Alternative # Nil THEN eval("evalBlock", in.Alternative, Top(e1), e1)
        ELSE V(c.e, Nil)

evalWhile(in, scope, e) ==
    LET c == eval("evalExpression", in.Condition, scope, e)
        e1 == NewScope(Step(c.e), scope)
        result == eval("evalBlock", in.Consequence, Top(e1), e1)
    IN  IF Stopped(c.e) THEN V(c.e, Nil)
        ELSE IF c.v.k # "bool" THEN V(Panic(c.e), Nil)
        ELSE IF ~c.v.v THEN V(c.e, Nil)
        ELSE IF result.v # Nil THEN result
        ELSE eval("evalWhile", in, scope, result.e)

\* evalForLoop making the scope of an iteration a child of the scope of the
\* iteration before it.
evalForLoopChained(in, keys, values, i, scope, e) ==
    IF i > Len(keys) \/ Stopped(e) THEN V(e, Nil)
    ELSE LET e1 == NewScope(Step(e), scope)
             newScope == Top(e1)
             e2 == SetVariable(e1, newScope, in.Key, keys[i])
             e3 == SetVariable(e2, newScope, in.Value, values[i])
             result == eval("evalBlock", in.Consequence, newScope, e3)
         IN  IF result.v # Nil THEN result
             ELSE eval("evalForLoop", <<in, keys, values, i + 1>>, newScope, result.e)

\* One loop of evalFor over the entries keys[i], values[i] of the subject.
evalForLoop(in, keys, values, i, scope, e) ==
    IF i > Len(keys) \/ Stopped(e) THEN V(e, Nil)
    ELSE LET e1 == NewScope(Step(e), scope)
             newScope == Top(e1)
             e2 == SetVariable(e1, newScope, in.Key, keys[i])
             e3 == SetVariable(e2, newScope, in.Value, values[i])
             result == eval("evalBlock", in.Consequence, newScope, e3)
         IN  IF result.v # Nil THEN result
             ELSE eval("evalForLoop", <<in, keys, values, i + 1>>, scope, result.e)

evalFor(in, scope, e) ==
    LET c == eval("evalExpression", in.Condition, scope, e)
        subject == c.v
        n == Len(subject.v)
        runes == Runes(subject.v)
    IN  CASE subject.k = "string" ->
                eval("evalForLoop",
                     <<in, [i \in 1..Len(runes) |-> GoInt(i - 1)],
                       [i \in 1..Len(runes) |-> Str(runes[i])], 1>>, scope, c.e)
          [] subject.k = "array" ->
                eval("evalForLoop", <<in, [i \in 1..n |-> GoInt(i - 1)], subject.v, 1>>,
                     scope, c.e)
          [] subject.k = "map" ->
                eval("evalForLoop",
                     <<in, [i \in 1..n |-> Range(subject.v, c.e.seed)[i].key],
                       [i \in 1..n |-> Range(subject.v, c.e.seed)[i].value], 1>>, scope, c.e)
          [] OTHER -> V(c.e, Nil)

evalFunction(in, scope, e) == V(SetFunction(e, scope, in.Name, in), Nil)

evalReturn(in, scope, e) == eval("evalExpression", in.Value, scope, e)

evalBlockLoop(statements, i, scope, e) ==
    IF i > Len(statements) \/ Stopped(e) THEN V(e, Nil)
    ELSE IF statements[i] = Nil THEN eval("evalBlockLoop", <<statements, i + 1>>, scope, e)
    ELSE LET result == eval("evalStatement", statements[i], scope, e)
         IN  IF result.v # Nil THEN result
             ELSE eval("evalBlockLoop", <<statements, i + 1>>, scope, result.e)

evalBlock(in, scope, e) == eval("evalBlockLoop", <<in.Statements, 1>>, scope, e)

\* evalStatement evaluating a Block in the enclosing scope instead of a new one.
evalStatementSameScope(statement, scope, e) ==
    IF Stopped(e) THEN V(e, Nil)
    ELSE LET t == statement.k
         IN  CASE t = "Variable" -> evalVariable(statement, scope, e)
               [] t = "If" -> evalIf(statement, scope, e)
               [] t = "While" -> eval("evalWhile", statement, scope, e)
               [] t = "For" -> evalFor(statement, scope, e)
               [] t = "Function" -> evalFunction(statement, scope, e)
               [] t = "Return" -> evalReturn(statement, scope, e)
               [] t = "Block" -> eval("evalBlock", statement, scope, e)
               [] OTHER -> eval("evalExpression", statement, scope, e)

evalStatement(statement, scope, e) ==
    IF Stopped(e) THEN V(e, Nil)
    ELSE LET t == statement.k
             e1 == NewScope(e, scope)
         IN  CASE t = "Variable" -> evalVariable(statement, scope, e)
               [] t = "If" -> evalIf(statement, scope, e)
               [] t = "While" -> eval("evalWhile", statement, scope, e)
               [] t = "For" -> evalFor(statement, scope, e)
               [] t = "Function" -> evalFunction(statement, scope, e)
               [] t = "Return" -> evalReturn(statement, scope, e)
               [] t = "Block" -> eval("evalBlock", statement, Top(e1), e1)
               [] OTHER -> eval("evalExpression", statement, scope, e)

eval(function, a, scope, e) ==
    CASE function = "evalStatement" -> evalStatement(a, scope, e)
      [] function = "evalBlock" -> evalBlock(a, scope, e)
      [] function = "evalBlockLoop" -> evalBlockLoop(a[1], a[2], scope, e)
      [] function = "evalExpression" -> evalExpression(a, scope, e)
      [] function = "evalExpressions" -> evalExpressions(a[1], a[2], a[3], scope, e)
      [] function = "evalVariableLoop" -> evalVariableLoop(a, scope, e)
      [] function = "evalWhile" -> evalWhile(a, scope, e)
      [] function = "evalForLoop" -> evalForLoop(a[1], a[2], a[3], a[4], scope, e)
      [] function = "evalMapLoop" -> evalMapLoop(a[1], a[2], a[3], scope, e)
      [] function = "evalArguments" -> evalArguments(a[1], a[2], a[3], a[4], scope, e)

(***************************************************************************)
(* Lexer, at the granularity of lexemes                                    *)
(***************************************************************************)
\* A source text is given as the sequence of its lexemes (what is left of it
\* once whitespace and comments are skipped); Lex classifies each lexeme the
\* way lexIdentifier, lexNumber, lexString and lexSymbol do and ends the
\* stream with EOF.
Keywords ==
    [true |-> TRUE_, false |-> FALSE_, var |-> VAR, if |-> IF_, else |-> ELSE_,
     while |-> WHILE, for |-> FOR, in |-> IN_, fn |-> FN, return |-> RETURN,
     len |-> LEN, print |-> PRINT, println |-> PRINTLN, or |-> OR, and |-> AND]

Symbols ==
    {COMMA, COLON, LPAREN, RPAREN, LBRACKET, RBRACKET, LCURLY, RCURLY, ASSIGN, PLUS,
     MINUS, ASTERISK, SLASH, NOT, LT, GT, LEQ, GEQ, EQ, NEQ}

StringText == <<"\"\"", "\"a\"", "\"b\"", "\"ab\"">>

lexString(v) ==
    CASE v = "\"a\"" -> NewToken(STRING_, "a")
      [] v = "\"b\"" -> NewToken(STRING_, "b")
      [] v = "\"ab\"" -> NewToken(STRING_, "ab")
      [] OTHER -> NewToken(STRING_, "")

lexNumber(v) ==
    IF \E i \in 1..Len(FloatText) : FloatText[i] = v
    THEN NewToken(FLOAT, v) ELSE NewToken(INT, v)

lexIdentifier(v) ==
    IF v \in DOMAIN Keywords THEN NewToken(Keywords[v], v) ELSE NewToken(IDENT, v)

lexSymbol(v) == IF v \in Symbols THEN NewToken(v, v) ELSE NewToken(ILLEGAL, v)

IsNumber(v) ==
    \/ \E i \in 1..Len(IntText) : IntText[i] = v
    \/ \E i \in 1..Len(FloatText) : FloatText[i] = v

IsString(v) == \E i \in 1..Len(StringText) : StringText[i] = v

Lex(input) ==
    [i \in 1..Len(input) + 1 |->
        IF i > Len(input) THEN NewToken(EOF, "")
        ELSE LET v == input[i]
             IN  CASE IsString(v) -> lexString(v)
                   [] IsNumber(v) -> lexNumber(v)
                   [] v \in Symbols -> lexSymbol(v)
                   [] OTHER -> lexIdentifier(v)]

(***************************************************************************)
(* The programs the pipeline is run on                                     *)
(***************************************************************************)
\* A program is a record: fam and kind name the family of programs and the
\* variant, a and b are its integer parameters, src is its source text.
Program(fam, kind, a, b, src) == [fam |-> fam, kind |-> kind, a |-> a, b |-> b, src |-> src]

\* Bounds of the integer parameters of the programs.
MaxArg == 2
MaxFib == 6

Num(n) == IntText[n + 1]

NestKinds == {"block", "if", "else", "while", "for", "fn"}

\* body placed inside one nested construct of the given kind.
Nest(kind, body) ==
    CASE kind = "block" -> <<"{">> \o body \o <<"}">>
      [] kind = "if" -> <<"if", "true", "{">> \o body \o <<"}">>
      [] kind = "else" -> <<"if", "false", "{", "}", "else", "{">> \o body \o <<"}">>
      [] kind = "while" ->
            <<"var", "go", "=", "true", "while", "go", "{">> \o body
                \o <<"go", "=", "false", "}">>
      [] kind = "for" -> <<"for", "k", ",", "v", "in", "[", "7", "]", "{">> \o body \o <<"}">>
      [] kind = "fn" -> <<"fn", "f", "(", "a", ")", "{">> \o body \o <<"}", "f", "(", "1", ")">>

\* Right-hand sides of a reassignment of x made in a nested scope that
\* declares y.
Rhs(i) ==
    CASE i = 0 -> <<"7">>
      [] i = 1 -> <<"x", "+", "1">>
      [] i = 2 -> <<"y">>
      [] i = 3 -> <<"y", "+", "x">>

\* var x = 0  NEST{ var y = 5  println(e)  x = e }  x
ReassignPrograms ==
    {Program("reassign", kind, i, 0,
             <<"var", "x", "=", "0">>
                \o Nest(kind, <<"var", "y", "=", "5", "println", "(">> \o Rhs(i)
                                \o <<")", "x", "=">> \o Rhs(i))
                \o <<"x">>) : kind \in NestKinds, i \in 0..3}

LookupNames == <<"y", "k", "v", "a">>

\* NEST{ var y = 5  println(y) }  name
ScopingPrograms ==
    {Program("scoping", kind, i, 0,
             Nest(kind, <<"var", "y", "=", "5", "println", "(", "y", ")">>)
                \o <<LookupNames[i]>>) : kind \in NestKinds, i \in 1..Len(LookupNames)}

\* var n = a  fn f(n) { n = 0  return 1 }  f(7)  n
\* var n = a  fn f(n) { if n == 0 { return 0 }  n = n - 1  return f(n) }  f(b)  n
ByValuePrograms ==
    {Program("byvalue", "once", a, 0,
             <<"var", "n", "=", Num(a), "fn", "f", "(", "n", ")", "{", "n", "=", "0",
               "return", "1", "}", "f", "(", "7", ")", "n">>) : a \in 1..MaxArg}
    \cup
    {Program("byvalue", "recursive", a, b,
             <<"var", "n", "=", Num(a), "fn", "f", "(", "n", ")", "{",
               "if", "n", "==", "0", "{", "return", "0", "}",
               "n", "=", "n", "-", "1", "return", "f", "(", "n", ")", "}",
               "f", "(", Num(b), ")", "n">>) : a \in 1..MaxArg, b \in 1..MaxArg}

\* fn fibonacci(n) { if n == 1 { return 0 } if n == 2 { return 1 }
\*                   return fibonacci(n-1) + fibonacci(n-2) }  fibonacci(a)
FibPrograms ==
    {Program("fib", "fib", a, 0,
             <<"fn", "fibonacci", "(", "n", ")", "{",
               "if", "n", "==", "1", "{", "return", "0", "}",
               "if", "n", "==", "2", "{", "return", "1", "}",
               "return", "fibonacci", "(", "n", "-", "1", ")", "+",
                         "fibonacci", "(", "n", "-", "2", ")", "}",
               "fibonacci", "(", Num(a), ")">>) : a \in 1..MaxFib}

\* sum:  fn sum(a, b) { return a + b }  sum(a, b)
\* sub:  fn sub(a, b) { return a - b }  sub(a, b)
\* free: var y = a  fn g() { return y }  fn h() { var y = b  return g() }  h()
\* args: fn id(a) { return a }  fn h(z) { return id(z + b) }  h(a)
CallPrograms ==
    {Program("call", "sum", a, b,
             <<"fn", "sum", "(", "a", ",", "b", ")", "{", "return", "a", "+", "b", "}",
               "sum", "(", Num(a), ",", Num(b), ")">>) : a \in 0..MaxArg, b \in 0..MaxArg}
    \cup
    {Program("call", "sub", a, b,
             <<"fn", "sub", "(", "a", ",", "b", ")", "{", "return", "a", "-", "b", "}",
               "sub", "(", Num(a), ",", Num(b), ")">>) : a \in 0..MaxArg, b \in 0..MaxArg}
    \cup
    {Program("call", "free", a, b,
             <<"var", "y", "=", Num(a), "fn", "g", "(", ")", "{", "return", "y", "}",
               "fn", "h", "(", ")", "{", "var", "y", "=", Num(b), "return", "g", "(", ")", "}",
               "h", "(", ")">>) : a \in 0..MaxArg, b \in 0..MaxArg}
    \cup
    {Program("call", "args", a, b,
             <<"fn", "id", "(", "a", ")", "{", "return", "a", "}",
               "fn", "h", "(", "z", ")", "{", "return", "id", "(", "z", "+", Num(b), ")", "}",
               "h", "(", Num(a), ")">>) : a \in 0..MaxArg, b \in 0..MaxArg}

\* The calls that must yield no value: of an undefined function, and of f
\* with too few or too many arguments.
BadCall(kind, a) ==
    CASE kind = "undefined" -> <<"g", "(", "println", "(", Num(a), ")", ")">>
      [] kind = "few" -> <<"f", "(", ")">>
      [] kind = "many" -> <<"f", "(", "println", "(", Num(a), ")", ",", "x", ")">>
      [] kind = "nested" ->
            <<"{", "var", "z", "=", "f", "(", Num(a), ",", "println", "(", "x", ")", ")",
              "}">>

\* var x = 1  fn f(a) { println(9)  x = 2  return 3 }  CALL
BadCallPrograms ==
    {Program("badcall", kind, a, 0,
             <<"var", "x", "=", "1", "fn", "f", "(", "a", ")", "{",
               "println", "(", "9", ")", "x", "=", "2", "return", "3", "}">>
                \o BadCall(kind, a)) :
        kind \in {"undefined", "few", "many", "nested"}, a \in 0..MaxArg}

\* array: var a = [a, 2]  var b = a  b[0] = 9  a[0]
\* int:   var a = a       var b = a  b = 9     a
AliasPrograms ==
    {Program("alias", "array", a, 0,
             <<"var", "a", "=", "[", Num(a), ",", "2", "]", "var", "b", "=", "a",
               "b", "[", "0", "]", "=", "9", "a", "[", "0", "]">>) : a \in 0..MaxArg}
    \cup
    {Program("alias", "int", a, 0,
             <<"var", "a", "=", Num(a), "var", "b", "=", "a", "b", "=", "9", "a">>) :
        a \in 0..MaxArg}

\* Operands of a return statement: three values and two that evaluate to no
\* value (an undeclared variable, a call of an undefined function).
ReturnOperand(i) ==
    CASE i = 0 -> <<"7">>
      [] i = 1 -> <<"0">>
      [] i = 2 -> <<"false">>
      [] i = 3 -> <<"u">>
      [] i = 4 -> <<"g", "(", ")">>

\* fn r() { NEST{ return OPERAND }  println(1)  return 2 }  r()
ReturnPrograms ==
    {Program("return", kind, i, 0,
             <<"fn", "r", "(", ")", "{">> \o Nest(kind, <<"return">> \o ReturnOperand(i))
                \o <<"println", "(", "1", ")", "return", "2", "}", "r", "(", ")">>) :
        kind \in NestKinds \ {"fn"}, i \in 0..4}

\* Statements and expressions in which the grammar requires a token: each
\* template comes with the positions of such tokens.
Templates ==
    << [src |-> <<"var", "x", "=", "1">>, required |-> {3}],
       [src |-> <<"if", "true", "{", "1", "}">>, required |-> {3, 5}],
       [src |-> <<"while", "false", "{", "1", "}">>, required |-> {3, 5}],
       [src |-> <<"for", "k", "in", "[", "1", "]", "{", "}">>, required |-> {3, 6, 7, 8}],
       [src |-> <<"fn", "f", "(", "a", ")", "{", "}">>, required |-> {3, 5, 6, 7}],
       [src |-> <<"len", "(", "x", ")">>, required |-> {2, 4}],
       [src |-> <<"print", "(", "1", ")">>, required |-> {2, 4}],
       [src |-> <<"(", "1", "+", "2", ")", "*", "3">>, required |-> {5}],
       [src |-> <<"x", "[", "0", "]">>, required |-> {4}],
       [src |-> <<"f", "(", "1", ")">>, required |-> {4}],
       [src |-> <<"var", "m", "=", "{", "1", ":", "2", "}">>, required |-> {6, 8}] >>

Without(s, i) == SubSeq(s, 1, i - 1) \o SubSeq(s, i + 1, Len(s))

\* A template with one of its required tokens left out (kind names the token,
\* a the template, b the position).
MissingPrograms ==
    UNION {{Program("missing", Templates[t].src[i], t, i, Without(Templates[t].src, i)) :
                i \in Templates[t].required} : t \in 1..Len(Templates)}

\* Tokens that start no statement, met at the top level.
StrayTokens == <<")", "]", "}", ",", "=", "else", ":", "in">>

\* var x = 1  TOKEN  x
StrayPrograms ==
    {Program("stray", StrayTokens[i], i, 0,
             <<"var", "x", "=", "1", StrayTokens[i], "x">>) : i \in 1..Len(StrayTokens)}

\* Constructs left open at the end of the input.
Unclosed(i) ==
    CASE i = 1 -> <<"{", "1">>
      [] i = 2 -> <<"[", "1", ",">>
      [] i = 3 -> <<"f", "(", "1">>
      [] i = 4 -> <<"if", "true", "{", "1">>
      [] i = 5 -> <<"fn", "f", "(", ")", "{", "return", "1">>
      [] i = 6 -> <<"println", "(", "1">>
      [] i = 7 -> <<"(", "1", "+", "2">>

\* var x = 1  UNCLOSED
UnclosedPrograms ==
    {Program("unclosed", Unclosed(i)[1], i, 0, <<"var", "x", "=", "1">> \o Unclosed(i)) :
        i \in 1..7}

\* Right-hand sides of a reassignment of u, which no scope declares.
UndeclaredRhs(i) ==
    CASE i = 0 -> <<"7">>
      [] i = 1 -> <<"x", "+", "1">>
      [] i = 2 -> <<"println", "(", "9", ")">>
      [] i = 3 -> <<"1", "/", "0">>

\* top:  var x = 1  u = e  u
\* else: var x = 1  NEST{ var y = 5  u = e  println(u) }  u
\* with the reassignment u = e, or without it.
UndeclaredSource(kind, i, reassigned) ==
    LET r == IF reassigned THEN <<"u", "=">> \o UndeclaredRhs(i) ELSE <<>>
    IN  IF kind = "top" THEN <<"var", "x", "=", "1">> \o r \o <<"u">>
        ELSE <<"var", "x", "=", "1">>
                \o Nest(kind, <<"var", "y", "=", "5">> \o r \o <<"println", "(", "u", ")">>)
                \o <<"u">>

UndeclaredPrograms ==
    {Program("undeclared", kind, i, 0, UndeclaredSource(kind, i, TRUE)) :
        kind \in NestKinds \cup {"top"}, i \in 0..3}

\* len:     var s = [4, 5]  len(s) == 2
\* lenstr:  var s = "ab"    len(s) == 2
\* keyplus: var s = [4, 5]  for k, v in s { println(k + 1) }
\* index:   var s = [4, 5]  for k, v in s { println(s[k]) }
\* strkey:  var s = "ab"    for k, v in s { println(k + 1) }
VariantPrograms ==
    {Program("variant", "len", 0, 0,
             <<"var", "s", "=", "[", "4", ",", "5", "]", "len", "(", "s", ")", "==", "2">>),
     Program("variant", "lenstr", 0, 0,
             <<"var", "s", "=", "\"ab\"", "len", "(", "s", ")", "==", "2">>),
     Program("variant", "keyplus", 0, 0,
             <<"var", "s", "=", "[", "4", ",", "5", "]", "for", "k", ",", "v", "in", "s", "{",
               "println", "(", "k", "+", "1", ")", "}">>),
     Program("variant", "index", 0, 0,
             <<"var", "s", "=", "[", "4", ",", "5", "]", "for", "k", ",", "v", "in", "s", "{",
               "println", "(", "s", "[", "k", "]", ")", "}">>),
     Program("variant", "strkey", 0, 0,
             <<"var", "s", "=", "\"ab\"", "for", "k", ",", "v", "in", "s", "{",
               "println", "(", "k", "+", "1", ")", "}">>)}

\* The operands of the binary operations: booleans, integers, floats,
\* strings, a sequence, a mapping and the undeclared u (no value); type is
\* the operand's runtime type and int the value of an integer operand.
Operands ==
    <<[src |-> <<"true">>, type |-> "bool", int |-> 0],
      [src |-> <<"false">>, type |-> "bool", int |-> 0],
      [src |-> <<"0">>, type |-> "int64", int |-> 0],
      [src |-> <<"2">>, type |-> "int64", int |-> 2],
      [src |-> <<"-", "2">>, type |-> "int64", int |-> -2],
      [src |-> <<"7">>, type |-> "int64", int |-> 7],
      [src |-> <<"-", "7">>, type |-> "int64", int |-> -7],
      [src |-> <<"1.5">>, type |-> "float64", int |-> 0],
      [src |-> <<"0.0">>, type |-> "float64", int |-> 0],
      [src |-> <<"\"a\"">>, type |-> "string", int |-> 0],
      [src |-> <<"[", "1", "]">>, type |-> "array", int |-> 0],
      [src |-> <<"{", "1", ":", "2", "}">>, type |-> "map", int |-> 0],
      [src |-> <<"u">>, type |-> "nil", int |-> 0]>>

\* The binary operators, as written.
OperatorText == {"or", "and", "+", "-", "*", "/", "==", "!=", "<", ">", "<=", ">="}

\* var a = L  var b = R  a OP b
BinaryPrograms ==
    {Program("binary", op, i, j,
             <<"var", "a", "=">> \o Operands[i].src \o <<"var", "b", "=">> \o Operands[j].src
                \o <<"a", op, "b">>) :
        op \in OperatorText, i \in 1..Len(Operands), j \in 1..Len(Operands)}

\* var x = 1  { var x = 2  NEST{ x = 3 }  println(x) }  x
ShadowPrograms ==
    {Program("shadow", kind, 0, 0,
             <<"var", "x", "=", "1", "{", "var", "x", "=", "2">>
                \o Nest(kind, <<"x", "=", "3">>)
                \o <<"println", "(", "x", ")", "}", "x">>) : kind \in NestKinds}

\* Expression statements with a value: an arithmetic expression, a variable,
\* a call used as a statement, a len.
ValuedExpression(i) ==
    CASE i = 0 -> <<"1", "+", "2">>
      [] i = 1 -> <<"x">>
      [] i = 2 -> <<"g", "(", ")">>
      [] i = 3 -> <<"len", "(", "\"ab\"", ")">>

\* var x = 1  fn g() { return 3 }  NEST{ e  println(9) }
EarlyPrograms ==
    {Program("early", kind, i, 0,
             <<"var", "x", "=", "1", "fn", "g", "(", ")", "{", "return", "3", "}">>
                \o Nest(kind, ValuedExpression(i) \o <<"println", "(", "9", ")">>)) :
        kind \in {"block", "if", "else", "while", "for"}, i \in 0..3}

\* top:  var x = 7  var x = a  x
\* else: var x = 7  NEST{ var x = a  println(x)  { println(x) } }  x
DeclarePrograms ==
    {Program("declare", "top", a, 0,
             <<"var", "x", "=", "7", "var", "x", "=", Num(a), "x">>) : a \in 0..MaxArg}
    \cup
    {Program("declare", kind, a, 0,
             <<"var", "x", "=", "7">>
                \o Nest(kind, <<"var", "x", "=", Num(a), "println", "(", "x", ")",
                                "{", "println", "(", "x", ")", "}">>)
                \o <<"x">>) : kind \in NestKinds, a \in 0..MaxArg}

\* The literal [4, 5, ...] of n elements, and the literal {1: 4, 2: 5, ...}
\* of n entries.
RECURSIVE SequenceLiteral(_)
SequenceLiteral(n) ==
    IF n = 0 THEN <<"[", "]">>
    ELSE IF n = 1 THEN <<"[", "4", "]">>
    ELSE SubSeq(SequenceLiteral(n - 1), 1, 2 * n - 2) \o <<",", Num(n + 3), "]">>

RECURSIVE MappingLiteral(_)
MappingLiteral(n) ==
    IF n = 0 THEN <<"{", "}">>
    ELSE IF n = 1 THEN <<"{", "1", ":", "4", "}">>
    ELSE SubSeq(MappingLiteral(n - 1), 1, 4 * n - 4) \o <<",", Num(n), ":", Num(n + 3), "}">>

\* The operands that are no string, sequence or mapping.
NotIterable == {i \in 1..Len(Operands) : Operands[i].type \notin {"string", "array", "map"}}

\* for k, v in SUBJECT { println(k) println(v) } println(9), at top level
\* (b = 0) or in a block (b = 1), over a sequence of a elements ("seq"), the
\* a-th string literal ("str"), a mapping of a entries ("map") or the a-th
\* operand ("other"); and a loop over [4, 5, 6] whose body prints v and
\* returns a ("result").
ForEachBody == <<"{", "println", "(", "k", ")", "println", "(", "v", ")", "}">>

ForEach(b, subject, body) ==
    IF b = 0 THEN <<"for", "k", ",", "v", "in">> \o subject \o body \o <<"println", "(", "9", ")">>
    ELSE <<"{", "for", "k", ",", "v", "in">> \o subject \o body \o <<"}", "println", "(", "9", ")">>

ForEachPrograms ==
    {Program("foreach", "seq", n, b, ForEach(b, SequenceLiteral(n), ForEachBody)) :
        n \in 0..3, b \in 0..1}
    \cup {Program("foreach", "str", i, b, ForEach(b, <<StringText[i]>>, ForEachBody)) :
            i \in 1..Len(StringText), b \in 0..1}
    \cup {Program("foreach", "map", n, b, ForEach(b, MappingLiteral(n), ForEachBody)) :
            n \in 0..2, b \in 0..1}
    \cup {Program("foreach", "other", i, b, ForEach(b, Operands[i].src, ForEachBody)) :
            i \in NotIterable, b \in 0..1}
    \cup {Program("foreach", "result", a, 0,
                  <<"for", "k", ",", "v", "in">> \o SequenceLiteral(3)
                     \o <<"{", "println", "(", "v", ")", "return", Num(a), "println", "(", "8", ")", "}">>) :
            a \in 0..MaxArg}

\* Programs with the a-th operand as the condition of an if with an else
\* ("if"), of an if without one ("ifonly") and of a while ("while"; the
\* operand true, which loops forever, left out), at top level (b = 0) or in
\* a block (b = 1); and a while that counts to a ("count").  Each branch and
\* body declares t and prints, and println(9) follows the statement.
InBlock(b, body) == IF b = 0 THEN body ELSE <<"{">> \o body \o <<"}">>

Consequence == <<"{", "var", "t", "=", "1", "println", "(", "t", ")", "}">>
Alternative == <<"else", "{", "var", "t", "=", "2", "println", "(", "t", ")", "}">>

ConditionPrograms ==
    {Program("condition", "if", i, b,
             InBlock(b, <<"if">> \o Operands[i].src \o Consequence \o Alternative)
                \o <<"println", "(", "9", ")">>) : i \in 1..Len(Operands), b \in 0..1}
    \cup {Program("condition", "ifonly", i, b,
                  InBlock(b, <<"if">> \o Operands[i].src \o Consequence)
                     \o <<"println", "(", "9", ")">>) : i \in 1..Len(Operands), b \in 0..1}
    \cup {Program("condition", "while", i, b,
                  InBlock(b, <<"while">> \o Operands[i].src \o Consequence)
                     \o <<"println", "(", "9", ")">>) :
            i \in {j \in 1..Len(Operands) : Operands[j].src # <<"true">>}, b \in 0..1}
    \cup {Program("condition", "count", a, b,
                  <<"var", "n", "=", "0">>
                     \o InBlock(b, <<"while", "n", "<", Num(a),
                                     "{", "var", "t", "=", "n", "println", "(", "t", ")",
                                     "n", "=", "n", "+", "1", "}">>)
                     \o <<"println", "(", "9", ")">>) : a \in 0..MaxArg + 1, b \in 0..1}

\* fn g() { println(9) return A }  var x = 0  x = g()  x, the reassignment
\* at top level ("top") or in one nested construct.
OncePrograms ==
    {Program("once", kind, a, 0,
             <<"fn", "g", "(", ")", "{", "println", "(", "9", ")", "return", Num(a), "}",
               "var", "x", "=", "0">>
                \o (IF kind = "top" THEN <<"x", "=", "g", "(", ")">>
                    ELSE Nest(kind, <<"x", "=", "g", "(", ")">>))
                \o <<"x">>) : kind \in NestKinds \cup {"top"}, a \in 1..MaxArg}

\* Programs with a map literal of two items: a loop over it that prints
\* ("print") or returns ("return") the value, two key expressions with the
\* same value ("equalkeys"), two value expressions that print ("effects"),
\* a key expression that prints ("keycall"); and a loop over a map of one
\* item ("single").
OrderPrograms ==
    {Program("order", "print", 0, 0,
             <<"for", "k", ",", "v", "in">> \o MappingLiteral(2)
                \o <<"{", "println", "(", "v", ")", "}">>),
     Program("order", "return", 0, 0,
             <<"for", "k", ",", "v", "in">> \o MappingLiteral(2)
                \o <<"{", "return", "v", "}">>),
     Program("order", "equalkeys", 0, 0,
             <<"var", "m", "=", "{", "1", ":", "4", ",", "0", "+", "1", ":", "5", "}",
               "m", "[", "1", "]">>),
     Program("order", "effects", 0, 0,
             <<"fn", "g", "(", ")", "{", "println", "(", "1", ")", "return", "4", "}",
               "fn", "h", "(", ")", "{", "println", "(", "2", ")", "return", "5", "}",
               "var", "m", "=", "{", "1", ":", "g", "(", ")", ",", "2", ":", "h", "(", ")", "}",
               "m", "[", "2", "]">>),
     Program("order", "keycall", 0, 0,
             <<"fn", "g", "(", ")", "{", "println", "(", "1", ")", "return", "1", "}",
               "println", "(", "2", ")",
               "var", "m", "=", "{", "g", "(", ")", ":", "4", "}", "println", "(", "3", ")">>),
     Program("order", "single", 0, 0,
             <<"for", "k", ",", "v", "in">> \o MappingLiteral(1)
                \o <<"{", "println", "(", "v", ")", "}">>)}

Programs ==
    ReassignPrograms \cup ScopingPrograms \cup ByValuePrograms \cup FibPrograms
        \cup CallPrograms \cup BadCallPrograms \cup AliasPrograms \cup ReturnPrograms
        \cup MissingPrograms \cup StrayPrograms \cup UnclosedPrograms
        \cup UndeclaredPrograms \cup VariantPrograms \cup BinaryPrograms
        \cup ShadowPrograms \cup EarlyPrograms \cup DeclarePrograms
        \cup ForEachPrograms \cup ConditionPrograms \cup OncePrograms
        \cup OrderPrograms

(***************************************************************************)
(* The pipeline: Parser.Parse and Evaluator.Eval                           *)
(***************************************************************************)
VARIABLES
    prog,       \* the program being run
    p,          \* the Parser
    pc,         \* the parser goroutine: "new", "parsing", "sending" (blocked in
                \* statements <- statement), "closed", "fatal" (log.Fatalf), "hang"
    statement,  \* the statement the parser goroutine is sending
    ev,         \* the evaluation record (scopes, output, panic)
    value,      \* Eval's variable value
    epc,        \* Eval: "eval" (in the range loop), "returned", "panic"
    evaluated,  \* the statements Eval has received so far
    l,          \* the Lexer over the characters of an input (see SpecLex); the
                \* pipeline takes its program as the sequence of its lexemes
    rt,         \* a round trip through the ast, lexer and parser packages
                \* (see SpecAst)
    pl          \* the three threads of a run at the grain of their channel
                \* operations (see SpecPipe)

vars == <<prog, p, pc, statement, ev, value, epc, evaluated, l, rt, pl>>

\* The Lexer of an input: in is the text, r the number of characters the
\* reader has consumed, lastRuneSize the reader's field of that name (-1 when
\* there is no rune to unread), tokens the tokens sent so far, pc the
\* goroutine of Lex: "lex", "closed" (close(tokens)) or "fatal" (log.Fatalf).
NewLexer(in) == [in |-> in, r |-> 0, lastRuneSize |-> -1, tokens |-> <<>>, pc |-> "lex"]

\* No round trip: the record of rt outside SpecAst.
NoRoundTrip == [step |-> "none"]

\* The record of pl outside SpecPipe.
NoPipeline == [mpc |-> "none"]

Running == pc # "fatal" /\ epc = "eval"

\* The seeds of a run of a program: only a program with a map literal (the
\* one use of the colon) ever ranges over a Go map.
MapSeeds(src) ==
    IF \E i \in 1..Len(src) : src[i] = ":" THEN 0..MaxMapSeed ELSE {0}

Init ==
    /\ prog \in Programs
    /\ l = NewLexer(<<>>)
    /\ rt = NoRoundTrip
    /\ pl = NoPipeline
    /\ p = NewParser(Lex(prog.src))
    /\ pc = "new"
    /\ statement = Nil
    /\ ev \in {[NewEval EXCEPT !.seed = seed] : seed \in MapSeeds(prog.src)}
    /\ value = Nil
    /\ epc = "eval"
    /\ evaluated = <<>>

\* Parser.Parse up to the start of the goroutine: the two calls of next.
Parse ==
    /\ Running /\ pc = "new"
    /\ p' = next(next(p))
    /\ pc' = "parsing"
    /\ UNCHANGED <<pl, rt, l, prog, statement, ev, value, epc, evaluated>>

\* One iteration of the goroutine's loop, up to the send.  A nil statement is
\* not sent; a parse that neither consumed a token nor aborted repeats
\* forever.
ParseStatement ==
    /\ Running /\ pc = "parsing"
    /\ p.currentToken.Type # EOF
    /\ LET s == parse("parseStatement", p, Nil)
       IN  /\ p' = s.p
           /\ pc' = IF s.p.fatal THEN "fatal"
                    ELSE IF s.p.hang \/ Pos(s.p) = Pos(p) THEN "hang"
                    ELSE IF s.n # Nil THEN "sending"
                    ELSE "parsing"
           /\ statement' = IF ~Dead(s.p) /\ Pos(s.p) # Pos(p) THEN s.n ELSE Nil
    /\ UNCHANGED <<pl, rt, l, prog, ev, value, epc, evaluated>>

\* The loop ends at EOF: close(statements).
Close ==
    /\ Running /\ pc = "parsing"
    /\ p.currentToken.Type = EOF
    /\ pc' = "closed"
    /\ UNCHANGED <<pl, rt, l, prog, p, statement, ev, value, epc, evaluated>>

\* The iteration of Eval's range loop evaluating the statement in a new child
\* of the top-level scope.
EvalStatementInChildScope ==
    /\ Running /\ pc = "sending"
    /\ LET e1 == NewScope(ev, 1)
           r == eval("evalStatement", statement, Top(e1), e1)
       IN  /\ ev' = r.e
           /\ value' = IF Stopped(r.e) THEN value ELSE r.v
           /\ epc' = IF Stopped(r.e) THEN "panic" ELSE "eval"
    /\ evaluated' = Append(evaluated, statement)
    /\ statement' = Nil
    /\ pc' = "parsing"
    /\ UNCHANGED <<pl, rt, l, prog, p>>

\* One iteration of Eval's range loop: the statement is received and
\* evaluated in the top-level scope.
EvalStatement ==
    /\ Running /\ pc = "sending"
    /\ LET r == eval("evalStatement", statement, 1, ev)
       IN  /\ ev' = r.e
           /\ value' = IF Stopped(r.e) THEN value ELSE r.v
           /\ epc' = IF Stopped(r.e) THEN "panic" ELSE "eval"
    /\ evaluated' = Append(evaluated, statement)
    /\ statement' = Nil
    /\ pc' = "parsing"
    /\ UNCHANGED <<pl, rt, l, prog, p>>

\* The channel is closed: Eval returns value.
Return ==
    /\ Running /\ pc = "closed"
    /\ epc' = "returned"
    /\ UNCHANGED <<pl, rt, l, prog, p, pc, statement, ev, value, evaluated>>

Next == Parse \/ ParseStatement \/ Close \/ EvalStatement \/ Return

Spec == Init /\ [][Next]_vars

(***************************************************************************)
(* Properties of the pipeline                                              *)
(***************************************************************************)
Returned == epc = "returned"

Root == ev.scopes[1]

\* What a lookup of name in the top-level scope yields.
RootVar(name) == IF name \in DOMAIN Root.variables THEN Root.variables[name] ELSE Nil

Printed(v) == [args |-> <<v>>, newline |-> TRUE]

\* C1: after a reassignment x = e made in a nested scope, the enclosing
\* scope's x holds the value e had at the assignment site (the value printed
\* by println(e) just before it), and the enclosing scope reads that value
\* after the nested block has exited, for every right-hand side e.
C1_OuterBindingHoldsSiteValue ==
    (prog.fam = "reassign" /\ Returned) =>
        /\ Len(ev.out) = 1
        /\ RootVar("x") = ev.out[1].args[1]
        /\ value = ev.out[1].args[1]

\* The names declared by the top-level var statements evaluated so far.
TopDeclared ==
    {evaluated[i].Name.Token.Value :
        i \in {j \in 1..Len(evaluated) : evaluated[j].k = "Variable" /\ evaluated[j].IsNew}}

\* C2: a name declared with var in a nested block, a ForEach loop variable
\* and a function parameter are not visible once the block has exited: the
\* top-level scope binds only the names declared by top-level var
\* statements, and a lookup of the nested name after the block yields no
\* value.
C2_NestedDeclarationsNotVisible ==
    /\ DOMAIN Root.variables \subseteq TopDeclared
    /\ (prog.fam = "scoping" /\ Returned) =>
            /\ value = Nil
            /\ LookupNames[prog.a] \notin DOMAIN Root.variables

C2_Witness ==
    /\ prog.fam = "scoping" /\ prog.kind = "for" /\ LookupNames[prog.a] = "k"
    /\ Returned
    /\ ev.out = <<Printed(Int64(5))>>
    /\ \E i \in 2..Len(ev.scopes) : {"y", "k", "v"} \subseteq DOMAIN ev.scopes[i].variables
    /\ value = Nil

\* C3: scalar arguments are passed by value: after the call returns, the
\* caller's variable n still has the value it had before the call, although
\* the callee reassigned its parameter n.
C3_CallerVariableUnchanged ==
    (prog.fam = "byvalue" /\ Returned) => value = Int64(prog.a) /\ RootVar("n") = Int64(prog.a)

RECURSIVE Fibonacci(_)
Fibonacci(n) == IF n = 1 THEN 0 ELSE IF n = 2 THEN 1 ELSE Fibonacci(n - 1) + Fibonacci(n - 2)

\* C4: the recursive program fibonacci evaluates fibonacci(n) to the
\* Fibonacci number (fib(1) = 0, fib(2) = 1, fib(n) = fib(n-1) + fib(n-2)) for
\* every n of the bounded range, without a fault.
C4_FibonacciValue ==
    prog.fam = "fib" =>
        /\ ~Stopped(ev)
        /\ pc \notin {"fatal", "hang"}
        /\ Returned => value = Int64(Fibonacci(prog.a))

C4_Witness ==
    /\ prog.fam = "fib" /\ prog.a = 3
    /\ Returned
    /\ value = Int64(1)
    /\ \E i \in 2..Len(ev.scopes) :
            /\ ev.scopes[i].variables = [n |-> Int64(2)]
            /\ ev.scopes[ev.scopes[i].parent].variables = [n |-> Int64(3)]

\* What the call of a "call" program must yield.
CallResult(pr) ==
    CASE pr.kind = "sum" -> pr.a + pr.b
      [] pr.kind = "sub" -> pr.a - pr.b
      [] pr.kind = "free" -> pr.b
      [] pr.kind = "args" -> pr.a + pr.b

\* C5: a call whose argument count equals the parameter count evaluates the
\* arguments in the call-site scope, binds the i-th parameter to the i-th
\* argument in a new scope whose parent is the call-site scope (free names of
\* the body resolve through the caller's chain), evaluates the body there and
\* yields the body's result; sum(1, 2) yields 3.
C5_CallBindsInChildOfCallSite ==
    prog.fam = "call" =>
        /\ ~Stopped(ev)
        /\ pc \notin {"fatal", "hang"}
        /\ Returned => value = Int64(CallResult(prog))

C5_Witness ==
    /\ prog.fam = "call" /\ prog.kind = "sum" /\ prog.a = 1 /\ prog.b = 2
    /\ Returned
    /\ value = Int64(3)
    /\ Len(ev.scopes) = 2
    /\ ev.scopes[2] = [variables |-> [a |-> Int64(1), b |-> Int64(2)],
                       functions |-> NoBinding, parent |-> 1]

\* A call of an undefined function or with a wrong number of arguments, made
\* in the given scope.
IsBadCall(s, scope) ==
    /\ s.k = "Call"
    /\ LET f == GetFunction(ev, scope, s.Identifier)
       IN  ~f.ok \/ Len(f.v.Parameters) # Len(s.Arguments)

\* C6: calling an undefined function, or a function with an argument count
\* different from its parameter count, yields no value without a fault: the
\* step that evaluates such a call as a top-level statement leaves the whole
\* evaluation record (every scope, the output, the step count) unchanged, and
\* the step that evaluates { var z = <such a call> } only allocates the
\* block's scope and binds z to no value in it.
C6_BadCallIsNoOp ==
    [][(pc = "sending" /\ pc' = "parsing") =>
        /\ IsBadCall(statement, 1) => (ev' = ev /\ value' = Nil /\ epc' = "eval")
        /\ (prog.fam = "badcall" /\ prog.kind = "nested" /\ statement.k = "Block") =>
                /\ ev' = [ev EXCEPT !.scopes = Append(@,
                                [variables |-> [z |-> Nil], functions |-> NoBinding,
                                 parent |-> 1])]
                /\ value' = Nil /\ epc' = "eval"]_vars

C6_Witness ==
    /\ prog.fam = "badcall" /\ prog.kind = "many"
    /\ Len(evaluated) = 3 /\ IsBadCall(evaluated[3], 1)
    /\ Len(evaluated[3].Arguments) = 2
    /\ "f" \in DOMAIN Root.functions
    /\ value = Nil /\ ev.out = <<>> /\ RootVar("x") = Int64(1)

\* C7: after var b = a for an array a, mutating an element through b is
\* observable through a (the program runs to its end and a[0] reads the
\* value stored through b); after var b = a for an integer a, reassigning b
\* leaves a unchanged.
C7_ArrayAliasIntegerCopy ==
    prog.fam = "alias" =>
        /\ pc # "hang"
        /\ Returned => value = IF prog.kind = "array" THEN Int64(9) ELSE Int64(prog.a)

\* What the operand of the return statement of a "return" program evaluates to.
OperandValue(i) ==
    CASE i = 0 -> Int64(7)
      [] i = 1 -> Int64(0)
      [] i = 2 -> Bool(FALSE)
      [] OTHER -> Nil

\* C9: when a return statement executes inside any nesting of If, While,
\* ForEach or Block within a function body, whatever its operand evaluates
\* to, no later statement of the body is executed (nothing is printed) and the
\* call evaluates to the operand's value.
C9_ReturnEndsTheCall ==
    (prog.fam = "return" /\ Returned) =>
        /\ ev.out = <<>>
        /\ value = OperandValue(prog.a)

\* C10: input in which a token the grammar requires is absent always aborts
\* the parse fatally: the parser never hands over a statement, never reaches
\* the end of its loop and never keeps running without consuming a token.
C10_MissingTokenIsFatal ==
    prog.fam = "missing" => pc \notin {"sending", "closed", "hang"}

\* C11: for every finite token stream the parser terminates, with the
\* statement stream closed or with a fatal abort: it never repeats a loop
\* without consuming a token (not on a construct left open at the end of the
\* input, not on a top-level token that starts no statement).
C11_ParserTerminates == pc # "hang"

\* The top-level statements of the program in source order: the statements
\* the parser produces from the whole token stream, up to the end of the input
\* or to the point where it aborts or stops consuming.
RECURSIVE SourceStatements(_, _)
SourceStatements(q, statements) ==
    IF Dead(q) \/ q.currentToken.Type = EOF THEN statements
    ELSE LET s == parse("parseStatement", q, Nil)
         IN  IF Dead(s.p) \/ Pos(s.p) = Pos(q) THEN statements
             ELSE SourceStatements(s.p, IF s.n # Nil THEN Append(statements, s.n)
                                        ELSE statements)

\* The evaluation of statements[i..], one after the other, each in the
\* top-level scope of e; v is the result of the last one evaluated.
RECURSIVE EvalInOrder(_, _, _, _)
EvalInOrder(statements, i, e, v) ==
    IF i > Len(statements) \/ Stopped(e) THEN V(e, v)
    ELSE LET r == eval("evalStatement", statements[i], 1, e)
         IN  EvalInOrder(statements, i + 1, r.e, IF Stopped(r.e) THEN v ELSE r.v)

\* C12: Eval evaluates every top-level statement of the program exactly once
\* and in source order (the statements evaluated so far are always a prefix of
\* the program's statements, and all of them once Eval has returned), each in
\* the one top-level scope (the scopes, the output and the value are those of
\* evaluating that prefix in order in the top-level scope, the value being the
\* result of the last statement); the statement handed over is the next
\* statement of the program, completely parsed; Eval returns only once the
\* statement stream is closed.
C12_EvalInSourceOrder ==
    prog.fam # "expr" =>
        LET all == SourceStatements(next(next(NewParser(Lex(prog.src)))), <<>>)
            r == EvalInOrder(evaluated, 1, [NewEval EXCEPT !.seed = ev.seed], Nil)
        IN  /\ Len(evaluated) <= Len(all)
            /\ evaluated = SubSeq(all, 1, Len(evaluated))
            /\ pc = "sending" =>
                    /\ Len(evaluated) < Len(all)
                    /\ statement = all[Len(evaluated) + 1]
            /\ ev = r.e /\ value = r.v
            /\ Returned => (pc = "closed" /\ evaluated = all)

C12_Witness ==
    /\ prog.fam = "call" /\ prog.kind = "free" /\ prog.a = 1 /\ prog.b = 2
    /\ Returned
    /\ Len(evaluated) = 4
    /\ evaluated[1].k = "Variable" /\ evaluated[2].k = "Function"
    /\ evaluated[3].k = "Function" /\ evaluated[4].k = "Call"
    /\ value = Int64(2)

\* The variables of every scope of e, with the scope's parent.
Bindings(e) ==
    [s \in 1..Len(e.scopes) |->
        [variables |-> e.scopes[s].variables, parent |-> e.scopes[s].parent]]

\* C16: a reassignment of a name that no scope of the chain declares is
\* dropped: nothing faults, no scope ever binds the name, and when Eval has
\* returned the variables of every scope and the output are those of the
\* same program without the reassignment, the final lookup of the name
\* yielding no value.
C16_UndeclaredReassignmentDropped ==
    prog.fam = "undeclared" =>
        /\ epc # "panic" /\ ~ev.panic
        /\ \A s \in 1..Len(ev.scopes) : "u" \notin DOMAIN ev.scopes[s].variables
        /\ Returned =>
                LET q == next(next(NewParser(Lex(UndeclaredSource(prog.kind, prog.a, FALSE)))))
                    r == EvalInOrder(SourceStatements(q, <<>>), 1, NewEval, Nil)
                IN  Bindings(ev) = Bindings(r.e) /\ ev.out = r.e.out /\ value = Nil

C16_Witness ==
    /\ prog.fam = "undeclared" /\ prog.kind = "fn" /\ prog.a = 2
    /\ Returned
    /\ Len(ev.scopes) = 2
    /\ DOMAIN ev.scopes[2].variables = {"a", "y"}
    /\ DOMAIN ev.scopes[1].variables = {"x"}

\* The variants of a value: boolean, 64-bit integer, float, string, sequence,
\* mapping, function, or no value.
Variants == {"bool", "int64", "float64", "string", "array", "map", "function", "nil"}

\* C17: every value bound in a scope is of one of the variants; the result of
\* len and the key of a for loop over a string or a sequence are integers of
\* the variant of the integer literals: for s of two elements len(s) == 2 is
\* true, and the keys k of a loop over s give k + 1 = 1, 2 and s[k] = the
\* elements of s, without a fault.
C17_LenAndKeysAreIntegers ==
    prog.fam = "variant" =>
        /\ epc # "panic"
        /\ \A s \in 1..Len(ev.scopes) : \A n \in DOMAIN ev.scopes[s].variables :
                ev.scopes[s].variables[n].k \in Variants
        /\ Returned =>
                CASE prog.kind \in {"len", "lenstr"} -> value = Bool(TRUE)
                  [] prog.kind \in {"keyplus", "strkey"} ->
                        ev.out = <<Printed(Int64(1)), Printed(Int64(2))>>
                  [] prog.kind = "index" ->
                        ev.out = <<Printed(Int64(4)), Printed(Int64(5))>>

\* The operation a OP b of a binary program: the types of its operands, the
\* type pairs and operators the language defines, and the integer division
\* by zero.
LeftType == Operands[prog.a].type

RightType == Operands[prog.b].type

Supported ==
    \/ /\ LeftType = "bool" /\ RightType = "bool"
       /\ prog.kind \in {"==", "!=", "or", "and"}
    \/ /\ LeftType \in {"int64", "float64"} /\ RightType \in {"int64", "float64"}
       /\ prog.kind \in {"<", ">", "<=", ">=", "==", "!=", "+", "-", "*", "/"}
    \/ /\ LeftType = "string" /\ RightType = "string"
       /\ prog.kind = "+"

IntegerDivisionByZero ==
    /\ LeftType = "int64" /\ RightType = "int64"
    /\ prog.kind = "/" /\ Operands[prog.b].int = 0

\* C18: a binary operation yields a value exactly for bool with bool under
\* ==, !=, or, and, for int and float in any pairing under the six
\* comparisons and the four arithmetic operators, and for string with string
\* under +; every other pairing of operand types and operator yields no value
\* and does not fault (the one fault is the integer division by zero).
C18_BinaryDispatch ==
    prog.fam = "binary" =>
        /\ epc = "panic" => IntegerDivisionByZero
        /\ Returned => ((value # Nil) <=> Supported)

C18_Witness ==
    /\ prog.fam = "binary" /\ prog.kind = "=="
    /\ LeftType = "string" /\ RightType = "string"
    /\ Returned
    /\ value = Nil
    /\ RootVar("a") = Str("a") /\ RootVar("b") = Str("a")

\* C19: the integer operations +, -, * and / of two integers give an integer;
\* the quotient is the one rounded toward zero (the remainder is smaller than
\* the divisor and has the sign of the dividend), so -7 / 2 and 7 / -2 are
\* -3; the integer division by zero is a fault: the evaluation of the
\* operation panics and Eval never returns a value.
C19_IntegerArithmetic ==
    (prog.fam = "binary" /\ LeftType = "int64" /\ RightType = "int64"
        /\ prog.kind \in {"+", "-", "*", "/"}) =>
        LET a == Operands[prog.a].int
            b == Operands[prog.b].int
            q == value.v
            r == a - q * b
        IN  IF IntegerDivisionByZero
            THEN /\ ~Returned
                 /\ Len(evaluated) = 3 => (epc = "panic" /\ value = Nil)
            ELSE /\ epc # "panic"
                 /\ Returned =>
                        /\ value.k = "int64"
                        /\ prog.kind = "+" => q = a + b
                        /\ prog.kind = "-" => q = a - b
                        /\ prog.kind = "*" => q = a * b
                        /\ prog.kind = "/" =>
                                /\ (IF r < 0 THEN -r ELSE r) < (IF b < 0 THEN -b ELSE b)
                                /\ r = 0 \/ (r < 0) = (a < 0)

C19_Witness ==
    /\ prog.fam = "binary" /\ prog.kind = "/"
    /\ Operands[prog.a].int = -7 /\ Operands[prog.b].int = 2
    /\ RootVar("a") = Int64(-7) /\ RootVar("b") = Int64(2)
    /\ Returned
    /\ value = Int64(-3)

\* C20: a reassignment changes the nearest scope of the chain that declares
\* the name and no other: of x = 3 made in a scope nested in a block that
\* declares x = 2, itself in the top-level scope that declares x = 1, the
\* block's x becomes 3 (the block prints 3), the top-level x stays 1 (the
\* final x is 1), and no scope other than these two ever binds x.
C20_ReassignsNearestScopeOnly ==
    prog.fam = "shadow" =>
        /\ \A s \in 3..Len(ev.scopes) : "x" \notin DOMAIN ev.scopes[s].variables
        /\ RootVar("x") \in {Nil, Int64(1)}
        /\ Returned => (value = Int64(1) /\ ev.out = <<Printed(Int64(3))>>)

\* C21: an expression statement never ends the block or loop it stands in:
\* in a block, an if branch, a while body and a for body that hold an
\* expression statement with a value followed by println(9), and no return,
\* the println is executed (once: each loop of these programs has one
\* iteration).
C21_OnlyReturnEndsABlock ==
    (prog.fam = "early" /\ Returned) => ev.out = <<Printed(Int64(9))>>

\* C22: a var declaration binds the name in the current scope and nowhere
\* else. At top level var x = a overwrites x = 7 (the final x is a). In a
\* nested scope var x = a leaves the top-level x = 7 unchanged in every state
\* and binds x in that scope only: the lookups from that scope and from the
\* block inside it print a, the block itself binds no x, and the final lookup
\* from the top level yields 7.
C22_DeclarationBindsCurrentScope ==
    prog.fam = "declare" =>
        IF prog.kind = "top"
        THEN /\ RootVar("x") \in {Nil, Int64(7), Int64(prog.a)}
             /\ Returned => value = Int64(prog.a)
        ELSE /\ RootVar("x") \in {Nil, Int64(7)}
             /\ Returned =>
                    /\ value = Int64(7)
                    /\ ev.out = <<Printed(Int64(prog.a)), Printed(Int64(prog.a))>>
                    /\ Len(ev.scopes) = 3
                    /\ ev.scopes[2].parent = 1 /\ ev.scopes[3].parent = 2
                    /\ ev.scopes[2].variables["x"] = Int64(prog.a)
                    /\ "x" \notin DOMAIN ev.scopes[3].variables

C22_Witness ==
    /\ prog.fam = "declare" /\ prog.kind = "fn" /\ prog.a = 2
    /\ Returned
    /\ value = Int64(7)
    /\ Len(ev.scopes) = 3
    /\ ev.scopes[2].variables["x"] = Int64(2)
    /\ ev.out = <<Printed(Int64(2)), Printed(Int64(2))>>

\* The subject of a program of the family foreach: its number of entries,
\* and the key and the value of its i-th entry (the key of a sequence or a
\* string is the index as the int of the range clause).
EntryCount ==
    CASE prog.kind = "seq" -> prog.a
      [] prog.kind = "str" -> Len(Runes(lexString(StringText[prog.a]).Value))
      [] prog.kind = "map" -> prog.a
      [] OTHER -> 0

EntryKey(i) == IF prog.kind = "map" THEN Int64(i) ELSE GoInt(i - 1)

EntryValue(i) ==
    IF prog.kind = "str" THEN Str(Runes(lexString(StringText[prog.a]).Value)[i])
    ELSE Int64(i + 3)

\* The orders in which the entries may be visited: the index order for a
\* sequence and a string, any order for a mapping.
EntryOrders ==
    IF prog.kind = "map" THEN Permutations(1..EntryCount)
    ELSE {[i \in 1..EntryCount |-> i]}

\* C25: ForEach over a sequence of n elements runs its body n times in index
\* order, over a string once per character, over a mapping once per entry,
\* over any other subject not at all and without a fault; iteration i runs
\* in a scope of its own whose parent is the enclosing scope and which binds
\* the key variable to the index (the key of the entry) and the value
\* variable to the element; a non-nil result of the body ends the loop at
\* once and is the result of the statement.
C25_ForEachIterations ==
    prog.fam = "foreach" =>
        /\ epc # "panic"
        /\ Returned =>
             IF prog.kind = "result"
             THEN /\ value = Int64(prog.a)
                  /\ ev.out = <<Printed(Int64(4))>>
                  /\ Len(ev.scopes) = 2
                  /\ ev.scopes[2].parent = 1
                  /\ ev.scopes[2].variables["k"] = GoInt(0)
                  /\ ev.scopes[2].variables["v"] = Int64(4)
             ELSE LET n == EntryCount
                      enclosing == 1 + prog.b
                  IN  \E order \in EntryOrders :
                         /\ Len(ev.out) = 2 * n + 1
                         /\ ev.out[2 * n + 1] = Printed(Int64(9))
                         /\ Len(ev.scopes) = enclosing + n
                         /\ \A i \in 1..n :
                               /\ ev.out[2 * i - 1] = Printed(EntryKey(order[i]))
                               /\ ev.out[2 * i] = Printed(EntryValue(order[i]))
                               /\ ev.scopes[enclosing + i].parent = enclosing
                               /\ DOMAIN ev.scopes[enclosing + i].variables = {"k", "v"}
                               /\ ev.scopes[enclosing + i].variables["k"] = EntryKey(order[i])
                               /\ ev.scopes[enclosing + i].variables["v"] = EntryValue(order[i])

\* The loop over [4, 5, 6] inside a block has run to its end.
C25_Witness ==
    /\ prog.fam = "foreach" /\ prog.kind = "seq" /\ prog.a = 3 /\ prog.b = 1
    /\ Returned
    /\ Len(ev.scopes) = 5

\* The printed integers, in order.
PrintedInts(ns) == [i \in 1..Len(ns) |-> Printed(Int64(ns[i]))]

\* The value of t the statement of a program of the family condition
\* declares in the one branch it runs: 1 in the consequence, 2 in the
\* alternative, 0 when no branch runs.
BranchRun ==
    IF Operands[prog.a].src = <<"true">> THEN 1
    ELSE IF prog.kind = "if" THEN 2
    ELSE 0

\* C26: the condition of If and While must be a boolean.  If runs its
\* consequence when it is true and its alternative, if any, when it is
\* false, in a new child of the current scope; While runs its body in a new
\* child of the current scope per iteration while the condition is true and
\* ends when it is false; a condition of another type, or without a value,
\* is a fault that ends the evaluation before any branch, body or later
\* statement runs.
C26_ConditionMustBeBoolean ==
    prog.fam = "condition" =>
        LET enclosing == 1 + prog.b
        IN  IF prog.kind = "count"
            THEN /\ epc # "panic"
                 /\ Returned =>
                       /\ ev.out = PrintedInts([i \in 1..prog.a + 1 |->
                                                   IF i > prog.a THEN 9 ELSE i - 1])
                       /\ Len(ev.scopes) = enclosing + prog.a
                       /\ \A i \in 1..prog.a :
                             /\ ev.scopes[enclosing + i].parent = enclosing
                             /\ ev.scopes[enclosing + i].variables["t"] = Int64(i - 1)
            ELSE IF Operands[prog.a].type # "bool"
            THEN /\ epc # "returned"
                 /\ evaluated # <<>> => epc = "panic"
                 /\ ev.out = <<>>
                 /\ Len(ev.scopes) <= enclosing
            ELSE /\ epc # "panic"
                 /\ Returned =>
                       IF BranchRun = 0
                       THEN ev.out = PrintedInts(<<9>>) /\ Len(ev.scopes) = enclosing
                       ELSE /\ ev.out = PrintedInts(<<BranchRun, 9>>)
                            /\ Len(ev.scopes) = enclosing + 1
                            /\ ev.scopes[enclosing + 1].parent = enclosing
                            /\ DOMAIN ev.scopes[enclosing + 1].variables = {"t"}
                            /\ ev.scopes[enclosing + 1].variables["t"] = Int64(BranchRun)

\* An if with an integer as its condition has been evaluated.
C26_Witness ==
    /\ prog.fam = "condition" /\ prog.kind = "if" /\ prog.b = 1
    /\ Operands[prog.a].type = "int64"
    /\ evaluated # <<>>
    /\ epc = "panic"

\* The first scope is the root and every other scope has an older scope as its
\* parent, so that the parent links of a scope lead to the root in fewer
\* steps than there are scopes; a program without if, while, for, fn and
\* brace has no If, While, ForEach, Block or call of a declared function
\* and creates no scope.
ScopeTree ==
    /\ Len(ev.scopes) >= 1
    /\ ev.scopes[1].parent = 0
    /\ \A i \in 2..Len(ev.scopes) : ev.scopes[i].parent \in 1..i - 1
    /\ (\A i \in 1..Len(prog.src) : prog.src[i] \notin {"if", "while", "for", "fn", "{"})
           => Len(ev.scopes) = 1

\* A step keeps every scope and its parent.
ParentsKept ==
    /\ Len(ev'.scopes) >= Len(ev.scopes)
    /\ \A i \in 1..Len(ev.scopes) : ev'.scopes[i].parent = ev.scopes[i].parent

\* C27: the parent links of every scope form a finite chain without a cycle
\* that ends in the one root; the parent of a scope never changes; scopes
\* are created only as children of an existing scope, by an If, a While or
\* ForEach iteration, a Block or a Call.
C27_ScopeTree == []ScopeTree /\ [][ParentsKept]_vars

\* Three scopes in a chain: a block in a nested construct at top level.
C27_Witness ==
    /\ Returned
    /\ Len(ev.scopes) >= 3
    /\ ev.scopes[3].parent = 2
    /\ ev.scopes[2].parent = 1

\* C28: a reassignment x = g() evaluates its right-hand side once, in the
\* scope of the statement, whatever the number of scopes between that scope
\* and the top-level scope: g prints once and x has the value g returns.
C28_RightHandSideEvaluatedOnce ==
    (prog.fam = "once" /\ Returned) =>
        /\ ev.out = <<Printed(Int64(9))>>
        /\ value = Int64(prog.a)

\* C29: evaluation is deterministic: every run of a program ends with the
\* result value, the bindings and the output of the run that visits the
\* items of every map in the order of the source.
C29_Deterministic ==
    (prog.fam = "order" /\ Returned) =>
        LET q == next(next(NewParser(Lex(prog.src))))
            r == EvalInOrder(SourceStatements(q, <<>>), 1, NewEval, Nil)
        IN  /\ value = r.v
            /\ ev.out = r.e.out
            /\ Bindings(ev) = Bindings(r.e)

(***************************************************************************)
(* Expressions: the parser applied to every bounded expression             *)
(***************************************************************************)
\* MaxTokens bounds the length of the expressions.
MaxTokens == 7

UnaryText == {"+", "-", "!"}

Last(s) == s[Len(s)]

\* An operand may follow: at the start, after an operator and after "(".
ExpectsOperand(src) ==
    IF src = <<>> THEN TRUE ELSE Last(src) \in OperatorText \cup UnaryText \cup {"("}

\* The expression under construction: a counts its operands (the i-th operand
\* is the literal i), b its open parentheses.
InitExpr ==
    /\ prog = Program("expr", "build", 0, 0, <<>>)
    /\ l = NewLexer(<<>>)
    /\ rt = NoRoundTrip
    /\ pl = NoPipeline
    /\ p = NewParser(<<>>)
    /\ pc = "build"
    /\ statement = Nil
    /\ ev = NewEval
    /\ value = Nil
    /\ epc = "eval"
    /\ evaluated = <<>>

Extend(lexeme, a, b) ==
    /\ pc = "build"
    /\ Len(prog.src) < MaxTokens
    /\ prog' = [prog EXCEPT !.src = Append(@, lexeme), !.a = a, !.b = b]
    /\ UNCHANGED <<pl, rt, l, p, pc, statement, ev, value, epc, evaluated>>

AddOperand ==
    /\ ExpectsOperand(prog.src)
    /\ prog.a < Len(IntText) - 1
    /\ Extend(Num(prog.a + 1), prog.a + 1, prog.b)

AddUnary ==
    /\ ExpectsOperand(prog.src)
    /\ \E op \in UnaryText : Extend(op, prog.a, prog.b)

AddOperator ==
    /\ ~ExpectsOperand(prog.src)
    /\ \E op \in OperatorText : Extend(op, prog.a, prog.b)

OpenParen ==
    /\ ExpectsOperand(prog.src)
    /\ Extend("(", prog.a, prog.b + 1)

CloseParen ==
    /\ ~ExpectsOperand(prog.src)
    /\ prog.b > 0
    /\ Extend(")", prog.a, prog.b - 1)

\* The finished expression is parsed as a top-level statement.
ParseExpr ==
    /\ pc = "build"
    /\ ~ExpectsOperand(prog.src) /\ prog.b = 0
    /\ LET s == parse("parseStatement", next(next(NewParser(Lex(prog.src)))), Nil)
       IN  p' = s.p /\ statement' = s.n
    /\ pc' = "parsed"
    /\ UNCHANGED <<pl, rt, l, prog, ev, value, epc, evaluated>>

NextExpr == AddOperand \/ AddUnary \/ AddOperator \/ OpenParen \/ CloseParen \/ ParseExpr

SpecExpr == InitExpr /\ [][NextExpr]_vars

\* The grouping the precedence table prescribes, defined on the text: the
\* root is the rightmost of the binary operators of lowest level that are
\* outside every parenthesis; without such an operator the expression is a
\* prefix operator applied to the rest, a parenthesized expression or a
\* literal.
Level(op) ==
    CASE op \in {"==", "!="} -> 1
      [] op \in {"or", "and"} -> 2
      [] op \in {"<", ">", "<=", ">="} -> 3
      [] op \in {"+", "-"} -> 4
      [] op \in {"*", "/"} -> 5

RECURSIVE Depth(_, _)
Depth(src, i) ==
    IF i = 0 THEN 0
    ELSE Depth(src, i - 1) + (IF src[i] = "(" THEN 1 ELSE IF src[i] = ")" THEN -1 ELSE 0)

IsBinaryAt(src, i) ==
    /\ i > 1 /\ src[i] \in OperatorText
    /\ src[i - 1] \notin OperatorText \cup UnaryText \cup {"("}
    /\ Depth(src, i) = 0

RECURSIVE Grouping(_)
Grouping(src) ==
    LET ops == {i \in 1..Len(src) : IsBinaryAt(src, i)}
        root == CHOOSE i \in ops :
                    \A j \in ops : \/ Level(src[j]) > Level(src[i])
                                   \/ (Level(src[j]) = Level(src[i]) /\ j <= i)
    IN  IF ops # {}
        THEN [k |-> "BinaryOperation", Token |-> Lex(<<src[root]>>)[1],
              Left |-> Grouping(SubSeq(src, 1, root - 1)),
              Right |-> Grouping(SubSeq(src, root + 1, Len(src)))]
        ELSE IF src[1] \in UnaryText
        THEN [k |-> "UnaryOperation", Token |-> Lex(<<src[1]>>)[1],
              Expression |-> Grouping(Tail(src))]
        ELSE IF src[1] = "("
        THEN Grouping(SubSeq(src, 2, Len(src) - 1))
        ELSE [k |-> "Integer", Value |-> ParseInt(src[1])]

\* C8: expression parsing groups operators according to the table
\* LOWEST < EQUALITY < BOOLEAN < RELATIONAL < ADDITIVE < MULTIPLICATIVE <
\* PREFIX: an operator of higher precedence binds tighter than an adjacent
\* lower one, operators of equal precedence group left to right, and a
\* parenthesized subexpression is a single operand; the whole expression is
\* consumed without an error.
C8_PrecedenceGrouping ==
    (prog.fam = "expr" /\ pc = "parsed") =>
        /\ statement = Grouping(prog.src)
        /\ ~Dead(p) /\ p.errors = 0
        /\ p.currentToken.Type = EOF

C8_Witness ==
    /\ prog.src = <<"(", "1", "+", "2", ")", "*", "3">>
    /\ pc = "parsed"
    /\ statement.k = "BinaryOperation" /\ statement.Token = NewToken(ASTERISK, "*")
    /\ statement.Left = [k |-> "BinaryOperation", Token |-> NewToken(PLUS, "+"),
                         Left |-> [k |-> "Integer", Value |-> 1],
                         Right |-> [k |-> "Integer", Value |-> 2]]
    /\ statement.Right = [k |-> "Integer", Value |-> 3]

(***************************************************************************)
(* The Lexer over characters                                               *)
(***************************************************************************)
\* A character is a string of length one; NUL is the rune 0, which is also
\* what readRune yields when the reader has nothing left (ReadRune's error is
\* dropped).
NUL == "NUL"

IsDigit(r) == r \in {"0", "1", "2", "3", "4", "5", "6", "7", "8", "9"}

IsLetter(r) == r \in {"a", "b", "f", "n", "o", "r", "x"}

readRune(lx) ==
    IF lx.r < Len(lx.in)
    THEN [l |-> [lx EXCEPT !.r = @ + 1, !.lastRuneSize = 1], r |-> lx.in[lx.r + 1]]
    ELSE [l |-> [lx EXCEPT !.lastRuneSize = -1], r |-> NUL]

\* bufio's UnreadRune fails, and moves nothing, when the last operation was
\* not a successful ReadRune.
unreadRune(lx) ==
    IF lx.lastRuneSize < 0 THEN lx
    ELSE [lx EXCEPT !.r = @ - lx.lastRuneSize, !.lastRuneSize = -1]

\* bufio's ReadLine and ReadString: the text up to and including the next
\* delim, or up to the end of the input.
RECURSIVE ReadSlice(_, _, _)
ReadSlice(lx, delim, line) ==
    IF lx.r >= Len(lx.in) THEN [l |-> [lx EXCEPT !.lastRuneSize = -1], line |-> line]
    ELSE LET c == lx.in[lx.r + 1]
             l1 == [lx EXCEPT !.r = @ + 1, !.lastRuneSize = -1]
         IN  IF c = delim THEN [l |-> l1, line |-> Append(line, c)]
             ELSE ReadSlice(l1, delim, Append(line, c))

\* The characters of a text put together as one string.
RECURSIVE Text(_)
Text(line) == IF line = <<>> THEN "" ELSE Head(line) \o Text(Tail(line))

\* strings.TrimRight(str, `"`)
RECURSIVE TrimRight(_, _)
TrimRight(line, c) ==
    IF line # <<>> /\ line[Len(line)] = c THEN TrimRight(SubSeq(line, 1, Len(line) - 1), c)
    ELSE line

\* for r is a blank or '#' { if r == '#' { ReadLine() }; r = readRune() }
RECURSIVE lexWhitespaceLoop(_, _)
lexWhitespaceLoop(lx, r) ==
    IF r \in {" ", "\t", "\n", "\r", "#"}
    THEN LET l1 == IF r = "#" THEN ReadSlice(lx, "\n", <<>>).l ELSE lx
             n == readRune(l1)
         IN  lexWhitespaceLoop(n.l, n.r)
    ELSE unreadRune(lx)

lexWhitespace(lx) ==
    LET n == readRune(lx)
    IN  lexWhitespaceLoop(n.l, n.r)

\* The loop of lexIdentifier; returns the Lexer and the text read.
RECURSIVE lexIdentifierLoop(_, _)
lexIdentifierLoop(lx, v) ==
    LET n == readRune(lx)
    IN  IF ~IsLetter(n.r) /\ ~IsDigit(n.r) THEN [l |-> unreadRune(n.l), v |-> v]
        ELSE lexIdentifierLoop(n.l, v \o n.r)

\* The loop of lexNumber; returns the Lexer, the token type and the text read.
RECURSIVE lexNumberLoop(_, _, _)
lexNumberLoop(lx, t, v) ==
    LET n == readRune(lx)
    IN  IF ~IsDigit(n.r) /\ n.r # "." THEN [l |-> unreadRune(n.l), t |-> t, v |-> v]
        ELSE lexNumberLoop(n.l, IF n.r = "." THEN FLOAT ELSE t, v \o n.r)

\* The token the Lexer's method yields on the rune r, with the Lexer after it.
Lexer_lexIdentifier(lx, r) ==
    LET n == lexIdentifierLoop(lx, r)
    IN  [l |-> n.l, token |-> lexIdentifier(n.v)]

Lexer_lexNumber(lx, r) ==
    LET n == lexNumberLoop(lx, INT, r)
    IN  [l |-> n.l, token |-> NewToken(n.t, n.v)]

Lexer_lexString(lx, r) ==
    LET n == ReadSlice(lx, "\"", <<>>)
    IN  [l |-> n.l, token |-> NewToken(STRING_, Text(TrimRight(n.line, "\"")))]

\* lexSymbol without the two-character symbols
Lexer_lexSymbolSingleChar(lx, r) ==
    [l |-> lx, token |-> lexSymbol(r)]

Lexer_lexSymbol(lx, r) ==
    LET n == readRune(lx)
        doubleCharSymbol == r \o n.r
    IN  IF doubleCharSymbol \in Symbols
        THEN [l |-> n.l, token |-> lexSymbol(doubleCharSymbol)]
        ELSE [l |-> unreadRune(n.l), token |-> lexSymbol(r)]

\* MaxChars bounds the length of the inputs of the Lexer.
MaxChars == 4

\* The characters of the inputs: blanks, the comment sign, the quote, a
\* digit, the point, a letter, symbols, a character of no token and NUL.
Chars == {" ", "\n", "#", "\"", "1", ".", "a", "<", "=", "!", "(", "@", NUL}

InitLex ==
    /\ l \in {NewLexer(in) : in \in UNION {[1..n -> Chars] : n \in 0..MaxChars}}
    /\ prog = Program("lex", "chars", 0, 0, <<>>)
    /\ p = NewParser(<<>>)
    /\ pc = "idle"
    /\ statement = Nil
    /\ ev = NewEval
    /\ value = Nil
    /\ epc = "eval"
    /\ evaluated = <<>>
    /\ rt = NoRoundTrip
    /\ pl = NoPipeline

\* The start of an iteration of Lex's loop: l.lexWhitespace(); r := l.readRune()
NextRune == readRune(lexWhitespace(l))

\* tokens <- token
Send(lx, token) == [lx EXCEPT !.tokens = Append(@, token)]

\* case r == 0: tokens <- NewToken(EOF, ""); return (and the deferred close)
LexEOF ==
    /\ l.pc = "lex"
    /\ NextRune.r = NUL
    /\ l' = [Send(NextRune.l, NewToken(EOF, "")) EXCEPT !.pc = "closed"]
    /\ UNCHANGED <<pl, rt, prog, p, pc, statement, ev, value, epc, evaluated>>

LexString ==
    /\ l.pc = "lex"
    /\ NextRune.r = "\""
    /\ LET n == Lexer_lexString(NextRune.l, NextRune.r)
       IN  l' = Send(n.l, n.token)
    /\ UNCHANGED <<pl, rt, prog, p, pc, statement, ev, value, epc, evaluated>>

LexNumber ==
    /\ l.pc = "lex"
    /\ IsDigit(NextRune.r)
    /\ LET n == Lexer_lexNumber(NextRune.l, NextRune.r)
       IN  l' = Send(n.l, n.token)
    /\ UNCHANGED <<pl, rt, prog, p, pc, statement, ev, value, epc, evaluated>>

LexIdentifier ==
    /\ l.pc = "lex"
    /\ IsLetter(NextRune.r)
    /\ LET n == Lexer_lexIdentifier(NextRune.l, NextRune.r)
       IN  l' = Send(n.l, n.token)
    /\ UNCHANGED <<pl, rt, prog, p, pc, statement, ev, value, epc, evaluated>>

\* default: the symbol is sent, or log.Fatalf on an ILLEGAL one
LexSymbol ==
    /\ l.pc = "lex"
    /\ NextRune.r # NUL /\ NextRune.r # "\"" /\ ~IsDigit(NextRune.r) /\ ~IsLetter(NextRune.r)
    /\ LET n == Lexer_lexSymbol(NextRune.l, NextRune.r)
       IN  /\ n.token.Type # ILLEGAL
           /\ l' = Send(n.l, n.token)
    /\ UNCHANGED <<pl, rt, prog, p, pc, statement, ev, value, epc, evaluated>>

LexIllegal ==
    /\ l.pc = "lex"
    /\ NextRune.r # NUL /\ NextRune.r # "\"" /\ ~IsDigit(NextRune.r) /\ ~IsLetter(NextRune.r)
    /\ LET n == Lexer_lexSymbol(NextRune.l, NextRune.r)
       IN  /\ n.token.Type = ILLEGAL
           /\ l' = [n.l EXCEPT !.pc = "fatal"]
    /\ UNCHANGED <<pl, rt, prog, p, pc, statement, ev, value, epc, evaluated>>

NextLex == LexEOF \/ LexString \/ LexNumber \/ LexIdentifier \/ LexSymbol \/ LexIllegal

SpecLex == InitLex /\ [][NextLex]_vars

(***************************************************************************)
(* Properties of the Lexer                                                 *)
(***************************************************************************)
SymbolChars == {",", ":", "(", ")", "[", "]", "{", "}", "=", "+", "-", "*", "/", "!", "<", ">"}

\* The lexical structure of a text, read off the text from position i on in
\* the given mode ("code", "number", "identifier", "comment", "string"):
\* whether a character that belongs to no token, blank or comment occurs.
RECURSIVE HasUnrecognized(_, _, _)
HasUnrecognized(in, i, mode) ==
    IF i > Len(in) THEN FALSE
    ELSE LET c == in[i]
         IN  CASE mode = "comment" ->
                    HasUnrecognized(in, i + 1, IF c = "\n" THEN "code" ELSE "comment")
               [] mode = "string" ->
                    HasUnrecognized(in, i + 1, IF c = "\"" THEN "code" ELSE "string")
               [] mode = "number" /\ (IsDigit(c) \/ c = ".") ->
                    HasUnrecognized(in, i + 1, "number")
               [] mode = "identifier" /\ (IsDigit(c) \/ IsLetter(c)) ->
                    HasUnrecognized(in, i + 1, "identifier")
               [] OTHER ->
                    CASE c = "#" -> HasUnrecognized(in, i + 1, "comment")
                      [] c = "\"" -> HasUnrecognized(in, i + 1, "string")
                      [] IsDigit(c) -> HasUnrecognized(in, i + 1, "number")
                      [] IsLetter(c) -> HasUnrecognized(in, i + 1, "identifier")
                      [] c \in SymbolChars \cup {" ", "\t", "\n", "\r"} ->
                            HasUnrecognized(in, i + 1, "code")
                      [] OTHER -> TRUE

EndOfInputTokens == {i \in 1..Len(l.tokens) : l.tokens[i].Type = EOF}

\* C13: for an input without an unrecognized character the token stream ends
\* with exactly one end-of-input token, the last token sent before the stream
\* is closed; for an input containing an unrecognized character the Lexer
\* aborts fatally and no end-of-input token is ever sent.
C13_EndOfInputMarker ==
    /\ l.pc = "lex" => EndOfInputTokens = {}
    /\ l.pc = "closed" =>
            /\ ~HasUnrecognized(l.in, 1, "code")
            /\ EndOfInputTokens = {Len(l.tokens)}
    /\ l.pc = "fatal" =>
            /\ HasUnrecognized(l.in, 1, "code")
            /\ EndOfInputTokens = {}

\* The lexical units of a text of delimiters, operators, blanks and comments,
\* read off the text from position i on: a blank is no unit, a comment runs
\* to the end of its line and is no unit, two characters that spell <=, >=,
\* == or != are one unit, and any other character is a unit of its own.
RECURSIVE LexicalUnits(_, _, _)
LexicalUnits(in, i, comment) ==
    IF i > Len(in) THEN <<>>
    ELSE LET c == in[i]
         IN  CASE comment -> LexicalUnits(in, i + 1, c # "\n")
               [] c = "#" -> LexicalUnits(in, i + 1, TRUE)
               [] c \in {" ", "\t", "\n", "\r"} -> LexicalUnits(in, i + 1, FALSE)
               [] i < Len(in) /\ (c \o in[i + 1]) \in {"<=", ">=", "==", "!="} ->
                    <<c \o in[i + 1]>> \o LexicalUnits(in, i + 2, FALSE)
               [] OTHER -> <<c>> \o LexicalUnits(in, i + 1, FALSE)

\* Whether a text is made only of delimiters, operators, blanks and comments.
RECURSIVE OnlySymbols(_, _, _)
OnlySymbols(in, i, comment) ==
    IF i > Len(in) THEN TRUE
    ELSE LET c == in[i]
         IN  CASE comment -> OnlySymbols(in, i + 1, c # "\n")
               [] c = "#" -> OnlySymbols(in, i + 1, TRUE)
               [] c \in SymbolChars \cup {" ", "\t", "\n", "\r"} -> OnlySymbols(in, i + 1, FALSE)
               [] OTHER -> FALSE

lexer_isLetter(char) == char \in {"a", "e", "l", "n", "r", "t", "u", "x", "y", "_"}

lexer_isDigit(char) == char \in {"0", "1", "2", "3", "4", "5", "6", "7", "8", "9"}

token_Token(typ, literal) == [Type |-> typ, Literal |-> literal]

\* token.LookupIdent: the keywords the parser package uses.
token_LookupIdent(literal) ==
    CASE literal = <<"l", "e", "t">> -> "LET"
      [] literal = <<"r", "e", "t", "u", "r", "n">> -> "RETURN"
      [] literal = <<"t", "r", "u", "e">> -> "TRUE"
      [] OTHER -> "IDENT"

lexer_newToken(typ, char) == token_Token(typ, <<char>>)

lexer_readChar(lxr) ==
    [lxr EXCEPT !.char = IF lxr.readPosition >= Len(lxr.input) THEN NUL
                         ELSE lxr.input[lxr.readPosition + 1],
                !.position = lxr.readPosition,
                !.readPosition = lxr.readPosition + 1]

lexer_peekChar(lxr) ==
    IF lxr.readPosition >= Len(lxr.input) THEN NUL ELSE lxr.input[lxr.readPosition + 1]

lexer_New(input) ==
    lexer_readChar([input |-> input, position |-> 0, readPosition |-> 0, char |-> NUL])

RECURSIVE lexer_skipWhitespace(_)
lexer_skipWhitespace(lxr) ==
    IF lxr.char \in {" ", "\t", "\n", "\r"}
    THEN lexer_skipWhitespace(lexer_readChar(lxr)) ELSE lxr

\* readIdentifier and readNumber, with is the test of the loop; position is
\* the position at the call. The result is the Lexer and input[position:l.position].
RECURSIVE lexer_read(_, _, _)
lexer_read(lxr, is, position) ==
    IF (is = "letter" /\ lexer_isLetter(lxr.char)) \/ (is = "digit" /\ lexer_isDigit(lxr.char))
    THEN lexer_read(lexer_readChar(lxr), is, position)
    ELSE [lxr |-> lxr, literal |-> SubSeq(lxr.input, position + 1, lxr.position)]

lexer_readIdentifier(lxr) == lexer_read(lxr, "letter", lxr.position)

lexer_readNumber(lxr) == lexer_read(lxr, "digit", lxr.position)

\* The token types of the single characters of NextToken's switch.
lexer_Single ==
    [c \in {"=", "+", "(", ")", "{", "}", ",", ";", "!", "-", "*", "/", "<", ">"} |->
        CASE c = "=" -> "ASSIGN" [] c = "+" -> "PLUS" [] c = "(" -> "LPAREN"
          [] c = ")" -> "RPAREN" [] c = "{" -> "LBRACE" [] c = "}" -> "RBRACE"
          [] c = "," -> "COMMA" [] c = ";" -> "SEMICOLON" [] c = "!" -> "BANG"
          [] c = "-" -> "MINUS" [] c = "*" -> "ASTERISK" [] c = "/" -> "SLASH"
          [] c = "<" -> "LT" [] c = ">" -> "GT"]

\* NextToken: the result is the Lexer and the token.
lexer_NextToken(lxr0) ==
    LET lxr == lexer_skipWhitespace(lxr0)
        char == lxr.char
    IN  CASE char \in {"=", "!"} /\ lexer_peekChar(lxr) = "=" ->
                [lxr |-> lexer_readChar(lexer_readChar(lxr)),
                 tok |-> token_Token(IF char = "=" THEN "EQ" ELSE "NOT_EQ", <<char, "=">>)]
          [] char \in DOMAIN lexer_Single /\ ~(char \in {"=", "!"} /\ lexer_peekChar(lxr) = "=") ->
                [lxr |-> lexer_readChar(lxr), tok |-> lexer_newToken(lexer_Single[char], char)]
          [] char = NUL ->
                [lxr |-> lexer_readChar(lxr), tok |-> token_Token("EOF", <<>>)]
          [] OTHER ->
                IF lexer_isLetter(char)
                THEN LET r == lexer_readIdentifier(lxr)
                     IN  [lxr |-> r.lxr, tok |-> token_Token(token_LookupIdent(r.literal), r.literal)]
                ELSE IF lexer_isDigit(char)
                THEN LET r == lexer_readNumber(lxr)
                     IN  [lxr |-> r.lxr, tok |-> token_Token("INT", r.literal)]
                ELSE [lxr |-> lexer_readChar(lxr), tok |-> lexer_newToken("ILLEGAL", char)]

(***************************************************************************)
(* Package ast (src/unnamed/part_001, lines 1-223)                         *)
(***************************************************************************)
\* The nil *ast.LetStatement that parseStatement returns as a Statement: an
\* interface value that is not nil.
ast_NilLetStatement == [node |-> "LetStatement", nil |-> TRUE]

\* Whether String() of the node dereferences nil.
RECURSIVE ast_StringPanics(_)
ast_StringPanics(n) ==
    CASE n = Nil -> TRUE
      [] n = ast_NilLetStatement -> TRUE
      [] n.node = "LetStatement" -> n.Value # Nil /\ ast_StringPanics(n.Value)
      [] n.node = "ReturnStatement" -> n.Value # Nil /\ ast_StringPanics(n.Value)
      [] n.node = "ExpressionStatement" -> n.Expression # Nil /\ ast_StringPanics(n.Expression)
      [] n.node = "Prefix" -> ast_StringPanics(n.Right)
      [] n.node = "Infix" -> ast_StringPanics(n.Left) \/ ast_StringPanics(n.Right)
      [] OTHER -> FALSE

RECURSIVE ast_String(_)
ast_String(n) ==
    CASE n.node = "LetStatement" ->
            n.Token.Literal \o <<" ">> \o ast_String(n.Name) \o <<" ", "=", " ">>
                \o (IF n.Value # Nil THEN ast_String(n.Value) ELSE <<>>) \o <<";">>
      [] n.node = "ReturnStatement" ->
            n.Token.Literal \o <<" ">>
                \o (IF n.Value # Nil THEN ast_String(n.Value) ELSE <<>>) \o <<";">>
      [] n.node = "ExpressionStatement" ->
            IF n.Expression # Nil THEN ast_String(n.Expression) ELSE <<>>
      [] n.node = "Identifier" -> n.Value
      [] n.node = "Integer" -> n.Token.Literal
      [] n.node = "Boolean" -> n.Token.Literal
      [] n.node = "Prefix" -> <<"(">> \o n.Operator \o ast_String(n.Right) \o <<")">>
      [] n.node = "Infix" ->
            <<"(">> \o ast_String(n.Left) \o <<" ">> \o n.Operator \o <<" ">>
                \o ast_String(n.Right) \o <<")">>

RECURSIVE ast_Program_String(_)
ast_Program_String(Statements) ==
    IF Statements = <<>> THEN <<>>
    ELSE ast_String(Head(Statements)) \o ast_Program_String(Tail(Statements))

(***************************************************************************)
(* Package parser (src/parser/parser.go). A method's result is [p, node]:  *)
(* the Parser after the call and the node returned.                        *)
(***************************************************************************)
parser_LOWEST == 1
parser_EQUALS == 2
parser_LESSGREATER == 3
parser_SUM == 4
parser_PRODUCT == 5
parser_PREFIX == 6

parser_precedences ==
    [t \in {"EQ", "NOT_EQ", "LT", "GT", "PLUS", "MINUS", "SLASH", "ASTERISK"} |->
        CASE t \in {"EQ", "NOT_EQ"} -> parser_EQUALS
          [] t \in {"LT", "GT"} -> parser_LESSGREATER
          [] t \in {"PLUS", "MINUS"} -> parser_SUM
          [] t \in {"SLASH", "ASTERISK"} -> parser_PRODUCT]

\* A call of a method of the Parser: every call among the methods goes
\* through parser_call, with the method's name and its arguments.
RECURSIVE parser_call(_, _, _)

parser_nextToken(ps) ==
    LET n == lexer_NextToken(ps.lxr)
    IN  [ps EXCEPT !.curToken = ps.peekToken, !.peekToken = n.tok, !.lxr = n.lxr]

\* prefixParseFns and infixParseFns: the token types New registers.
parser_prefixParseFns == {"IDENT", "INT", "TRUE", "FALSE", "MINUS", "BANG"}

parser_infixParseFns == {"EQ", "NOT_EQ", "LT", "GT", "PLUS", "MINUS", "SLASH", "ASTERISK"}

parser_New(lxr) ==
    parser_call("nextToken", parser_call("nextToken",
        [lxr |-> lxr, curToken |-> token_Token("", <<>>), peekToken |-> token_Token("", <<>>),
         errors |-> <<>>, hang |-> FALSE], Nil), Nil)

parser_currentTokenIs(ps, t) == ps.curToken.Type = t

parser_peekTokenIs(ps, t) == ps.peekToken.Type = t

\* currentPrecedence looks its precedence up under p.peekToken.Type.
parser_currentPrecedence(ps) ==
    IF ps.peekToken.Type \in DOMAIN parser_precedences
    THEN parser_precedences[ps.peekToken.Type] ELSE parser_LOWEST

parser_peekPrecedence(ps) ==
    IF ps.peekToken.Type \in DOMAIN parser_precedences
    THEN parser_precedences[ps.peekToken.Type] ELSE parser_LOWEST

parser_peekError(ps, t) ==
    [ps EXCEPT !.errors = Append(@, <<"expected next token to be", t, "got", ps.peekToken.Type>>)]

\* expectPeek: the result is the Parser and the boolean.
parser_expectPeek(ps, t) ==
    IF parser_peekTokenIs(ps, t) THEN [p |-> parser_call("nextToken", ps, Nil), ok |-> TRUE]
    ELSE [p |-> parser_peekError(ps, t), ok |-> FALSE]

\* for !p.currentTokenIs(token.SEMICOLON) { p.nextToken() }: at the end of the
\* input NextToken returns EOF for ever and the loop does not end (hang).
parser_skipToSemicolon(ps) ==
    IF parser_currentTokenIs(ps, "SEMICOLON") THEN ps
    ELSE IF parser_currentTokenIs(ps, "EOF") THEN [ps EXCEPT !.hang = TRUE]
    ELSE parser_call("skipToSemicolon", parser_call("nextToken", ps, Nil), Nil)

parser_parseLetStatement(ps) ==
    LET name == parser_call("expectPeek", ps, "IDENT")
        assign == parser_call("expectPeek", name.p, "ASSIGN")
    IN  IF ~name.ok THEN [p |-> name.p, node |-> ast_NilLetStatement]
        ELSE IF ~assign.ok THEN [p |-> assign.p, node |-> ast_NilLetStatement]
        ELSE [p |-> parser_call("skipToSemicolon", assign.p, Nil),
              node |-> [node |-> "LetStatement", Token |-> ps.curToken,
                        Name |-> [node |-> "Identifier", Token |-> name.p.curToken,
                                  Value |-> name.p.curToken.Literal],
                        Value |-> Nil]]

parser_parseReturnStatement(ps) ==
    [p |-> parser_call("skipToSemicolon", parser_call("nextToken", ps, Nil), Nil),
     node |-> [node |-> "ReturnStatement", Token |-> ps.curToken, Value |-> Nil]]

parser_parseIdentifier(ps) ==
    [p |-> ps, node |-> [node |-> "Identifier", Token |-> ps.curToken, Value |-> ps.curToken.Literal]]

parser_DigitValue(c) ==
    CASE c = "0" -> 0 [] c = "1" -> 1 [] c = "2" -> 2 [] c = "3" -> 3 [] c = "4" -> 4
      [] c = "5" -> 5 [] c = "6" -> 6 [] c = "7" -> 7 [] c = "8" -> 8 [] c = "9" -> 9

\* strconv.ParseInt(literal, 0, 64) of a sequence of digits: base 8 after a
\* leading 0, base 10 otherwise; an error and 0 on a digit outside the base.
RECURSIVE parser_ParseIntDigits(_, _, _)
parser_ParseIntDigits(literal, base, n) ==
    IF literal = <<>> THEN n
    ELSE parser_ParseIntDigits(Tail(literal), base, n * base + parser_DigitValue(Head(literal)))

parser_ParseInt(literal) ==
    LET base == IF Len(literal) > 1 /\ literal[1] = "0" THEN 8 ELSE 10
    IN  IF \E i \in 1..Len(literal) : parser_DigitValue(literal[i]) >= base
        THEN [value |-> 0, err |-> TRUE]
        ELSE [value |-> parser_ParseIntDigits(literal, base, 0), err |-> FALSE]

parser_parseInteger(ps) ==
    LET n == parser_ParseInt(ps.curToken.Literal)
    IN  [p |-> IF n.err
               THEN [ps EXCEPT !.errors = Append(@, <<"could not parse as integer", ps.curToken.Literal>>)]
               ELSE ps,
         node |-> [node |-> "Integer", Token |-> ps.curToken, Value |-> n.value]]

parser_parseBoolean(ps) ==
    [p |-> ps,
     node |-> [node |-> "Boolean", Token |-> ps.curToken, Value |-> parser_currentTokenIs(ps, "TRUE")]]

parser_parsePrefix(ps) ==
    LET right == parser_call("parseExpression", parser_call("nextToken", ps, Nil), parser_PREFIX)
    IN  [p |-> right.p,
         node |-> [node |-> "Prefix", Token |-> ps.curToken, Operator |-> ps.curToken.Literal,
                   Right |-> right.node]]

parser_parseInfix(ps, left) ==
    LET precedence == parser_currentPrecedence(ps)
        right == parser_call("parseExpression", parser_call("nextToken", ps, Nil), precedence)
    IN  [p |-> right.p,
         node |-> [node |-> "Infix", Token |-> ps.curToken, Operator |-> ps.curToken.Literal,
                   Left |-> left, Right |-> right.node]]

parser_parseExpressionLoop(ps, precedence, left) ==
    IF ~parser_peekTokenIs(ps, "SEMICOLON") /\ precedence < parser_peekPrecedence(ps)
    THEN IF ps.peekToken.Type \notin parser_infixParseFns
         THEN [p |-> ps, node |-> left]
         ELSE LET n == parser_call("parseInfix", parser_call("nextToken", ps, Nil), left)
              IN  parser_call("parseExpressionLoop", n.p, <<precedence, n.node>>)
    ELSE [p |-> ps, node |-> left]

parser_parseExpression(ps, precedence) ==
    LET t == ps.curToken.Type
    IN  IF t \notin parser_prefixParseFns
        THEN [p |-> [ps EXCEPT !.errors = Append(@, <<"no prefix parse function for", t, "found">>)],
              node |-> Nil]
        ELSE LET left == CASE t = "IDENT" -> parser_parseIdentifier(ps)
                           [] t = "INT" -> parser_parseInteger(ps)
                           [] t \in {"TRUE", "FALSE"} -> parser_parseBoolean(ps)
                           [] t \in {"MINUS", "BANG"} -> parser_call("parsePrefix", ps, Nil)
             IN  parser_call("parseExpressionLoop", left.p, <<precedence, left.node>>)

parser_parseExpressionStatement(ps) ==
    LET e == parser_call("parseExpression", ps, parser_LOWEST)
    IN  [p |-> IF parser_peekTokenIs(e.p, "SEMICOLON") THEN parser_call("nextToken", e.p, Nil) ELSE e.p,
         node |-> [node |-> "ExpressionStatement", Token |-> ps.curToken, Expression |-> e.node]]

parser_parseStatement(ps) ==
    CASE ps.curToken.Type = "LET" -> parser_call("parseLetStatement", ps, Nil)
      [] ps.curToken.Type = "RETURN" -> parser_call("parseReturnStatement", ps, Nil)
      [] OTHER -> parser_call("parseExpressionStatement", ps, Nil)

\* ParseProgram's loop; the result is the Parser and the Statements.
parser_ParseProgramLoop(ps, Statements) ==
    IF ps.hang \/ parser_currentTokenIs(ps, "EOF") THEN [p |-> ps, Statements |-> Statements]
    ELSE LET stmt == parser_call("parseStatement", ps, Nil)
         IN  IF stmt.p.hang THEN [p |-> stmt.p, Statements |-> Statements]
             ELSE parser_call("ParseProgramLoop", parser_call("nextToken", stmt.p, Nil),
                        IF stmt.node # Nil THEN Append(Statements, stmt.node) ELSE Statements)

parser_ParseProgram(ps) == parser_call("ParseProgramLoop", ps, <<>>)

parser_call(method, ps, a) ==
    CASE method = "New" -> parser_New(ps)
      [] method = "ParseProgram" -> parser_ParseProgram(ps)
      [] method = "ParseProgramLoop" -> parser_ParseProgramLoop(ps, a)
      [] method = "nextToken" -> parser_nextToken(ps)
      [] method = "expectPeek" -> parser_expectPeek(ps, a)
      [] method = "skipToSemicolon" -> parser_skipToSemicolon(ps)
      [] method = "parseStatement" -> parser_parseStatement(ps)
      [] method = "parseLetStatement" -> parser_parseLetStatement(ps)
      [] method = "parseReturnStatement" -> parser_parseReturnStatement(ps)
      [] method = "parseExpressionStatement" -> parser_parseExpressionStatement(ps)
      [] method = "parseExpression" -> parser_parseExpression(ps, a)
      [] method = "parseExpressionLoop" -> parser_parseExpressionLoop(ps, a[1], a[2])
      [] method = "parsePrefix" -> parser_parsePrefix(ps)
      [] method = "parseInfix" -> parser_parseInfix(ps, a)

(***************************************************************************)
(* Round trips: a source text is parsed (lexer.New, parser.New,            *)
(* ParseProgram), the Program is printed (String) and the print is parsed  *)
(* again.                                                                  *)
(***************************************************************************)
\* The characters of a lexeme.
Spell(w) ==
    CASE w = "let" -> <<"l", "e", "t">>
      [] w = "return" -> <<"r", "e", "t", "u", "r", "n">>
      [] w = "true" -> <<"t", "r", "u", "e">>
      [] w = "12" -> <<"1", "2">>
      [] w = "==" -> <<"=", "=">>
      [] w = "!=" -> <<"!", "=">>
      [] OTHER -> <<w>>

\* The source text of a sequence of lexemes, one blank between two lexemes.
RECURSIVE SourceText(_)
SourceText(ws) ==
    IF ws = <<>> THEN <<>>
    ELSE Spell(Head(ws)) \o (IF Tail(ws) = <<>> THEN <<>> ELSE <<" ">> \o SourceText(Tail(ws)))

AstOperands == {"x", "5", "12", "true"}

AstInfixOperators == {"+", "-", "*", "/", "<", ">", "==", "!="}

\* The expressions of the round trips: an operand, a prefix operation, an
\* infix operation, and the infix operations of three operands x, 5 and y.
AstExpressions ==
    {<<a>> : a \in AstOperands}
        \cup {<<u, a>> : u \in {"-", "!"}, a \in AstOperands}
        \cup {<<a, o, b>> : a \in AstOperands, o \in AstInfixOperators, b \in AstOperands}
        \cup {<<"x", o, "5", q, "y">> : o \in AstInfixOperators, q \in AstInfixOperators}

\* The statements of the round trips, and three texts that are no statement:
\* a let without a name, an infix operation without its right operand, and
\* a let without its semicolon.
AstSources ==
    {<<"let", "x", "=">> \o e \o <<";">> : e \in AstExpressions}
        \cup {<<"return">> \o e \o <<";">> : e \in AstExpressions}
        \cup {e \o <<";">> : e \in AstExpressions}
        \cup {<<"let", "5", ";">>, <<"x", "+", ";">>, <<"let", "x", "=", "5">>}

RoundTrip(input) ==
    [step |-> "source", input |-> input, Statements |-> <<>>, errors |-> <<>>,
     text |-> <<>>, Statements2 |-> <<>>, errors2 |-> <<>>]

InitAst ==
    /\ rt \in {RoundTrip(SourceText(ws)) : ws \in AstSources}
    /\ l = NewLexer(<<>>)
    /\ pl = NoPipeline
    /\ prog = Program("ast", "roundtrip", 0, 0, <<>>)
    /\ p = NewParser(<<>>)
    /\ pc = "idle"
    /\ statement = Nil
    /\ ev = NewEval
    /\ value = Nil
    /\ epc = "eval"
    /\ evaluated = <<>>

\* psr := New(lexer.New(sourceCode)); program := psr.ParseProgram()
RoundTripParse ==
    /\ rt.step = "source"
    /\ LET r == parser_call("ParseProgram", parser_call("New", lexer_New(rt.input), Nil), Nil)
       IN  rt' = [rt EXCEPT !.step = IF r.p.hang THEN "hang" ELSE "parsed",
                            !.Statements = r.Statements, !.errors = r.p.errors]
    /\ UNCHANGED <<pl, l, prog, p, pc, statement, ev, value, epc, evaluated>>

\* program.String()
RoundTripString ==
    /\ rt.step = "parsed"
    /\ rt' = IF \E i \in 1..Len(rt.Statements) : ast_StringPanics(rt.Statements[i])
             THEN [rt EXCEPT !.step = "panic"]
             ELSE [rt EXCEPT !.step = "printed", !.text = ast_Program_String(rt.Statements)]
    /\ UNCHANGED <<pl, l, prog, p, pc, statement, ev, value, epc, evaluated>>

\* New(lexer.New(program.String())).ParseProgram()
RoundTripReparse ==
    /\ rt.step = "printed"
    /\ LET r == parser_call("ParseProgram", parser_call("New", lexer_New(rt.text), Nil), Nil)
       IN  rt' = [rt EXCEPT !.step = IF r.p.hang THEN "hang" ELSE "reparsed",
                            !.Statements2 = r.Statements, !.errors2 = r.p.errors]
    /\ UNCHANGED <<pl, l, prog, p, pc, statement, ev, value, epc, evaluated>>

NextAst == RoundTripParse \/ RoundTripString \/ RoundTripReparse

SpecAst == InitAst /\ [][NextAst]_vars

\* Whether the parsed Program is one let statement, one return statement or
\* one infix expression, parsed without errors.
RoundTripCase ==
    /\ Len(rt.Statements) = 1
    /\ rt.errors = <<>>
    /\ \/ rt.Statements[1].node \in {"LetStatement", "ReturnStatement"}
       \/ /\ rt.Statements[1].node = "ExpressionStatement"
          /\ rt.Statements[1].Expression # Nil
          /\ rt.Statements[1].Expression.node = "Infix"

\* C15: a let statement, a return statement or an infix expression that is
\* parsed, printed with String() and parsed again gives a Program equal to
\* the first one, and the second parse reports no errors.
C15_RoundTrip ==
    (rt.step \in {"printed", "reparsed", "hang", "panic"} /\ RoundTripCase) =>
        /\ rt.step \in {"printed", "reparsed"}
        /\ rt.step = "reparsed" => (rt.Statements2 = rt.Statements /\ rt.errors2 = <<>>)

(***************************************************************************)
(* The three threads of a run                                              *)
(*                                                                         *)
(* NewParser starts the goroutine of Lexer.Lex; Eval calls Parser.Parse,   *)
(* which calls next twice on the calling thread and then starts the        *)
(* goroutine that parses and sends the statements; Eval ranges over the    *)
(* statements on the calling thread.  Both channels are unbuffered: a send *)
(* and its receive are one step.  The parser is deterministic in the       *)
(* tokens it has received, so the goroutine's course (which statement is   *)
(* ready after how many receives, and how the loop ends) is computed with  *)
(* parseStatement and replayed one receive at a time.                      *)
(***************************************************************************)
\* A character lexSymbol does not know.
Unrecognized == {"@"}

\* The token Lex makes of one lexeme.
LexToken(v) ==
    CASE IsString(v) -> lexString(v)
      [] IsNumber(v) -> lexNumber(v)
      [] v \in Symbols \cup Unrecognized -> lexSymbol(v)
      [] OTHER -> lexIdentifier(v)

\* The tokens Lex makes of an input, the EOF token last.
PipeTokens(input) ==
    [i \in 1..Len(input) + 1 |->
        IF i > Len(input) THEN NewToken(EOF, "") ELSE LexToken(input[i])]

\* Programs of several top-level statements; a is the 1-based index of the
\* top-level statement holding the unrecognized character or lacking the
\* expected token (0: none).
PipePrograms ==
    { Program("pipe", "ok", 0, 0,
              <<"var", "x", "=", "1", "x", "=", "x", "+", "1", "println", "(", "x", ")">>),
      Program("pipe", "fn", 0, 0,
              <<"fn", "f", "(", ")", "{", "return", "2", "}", "println", "(", "f", "(", ")", ")">>),
      Program("pipe", "missing", 2, 0,
              <<"println", "(", "1", ")", "var", "2">>),
      Program("pipe", "missing", 3, 0,
              <<"println", "(", "1", ")", "println", "(", "2", ")", "var", "=", "3">>),
      Program("pipe", "unrecognized", 2, 0,
              <<"println", "(", "1", ")", "@">>),
      Program("pipe", "unrecognized", 2, 1,
              <<"println", "(", "1", ")", "println", "(", "@", ")">>),
      Program("pipe", "unrecognized", 3, 0,
              <<"var", "x", "=", "1", "println", "(", "x", ")", "var", "y", "=", "@">>),
      Program("pipe", "panic", 0, 0,
              <<"if", "1", "{", "}", "println", "(", "2", ")">>) }

\* The tokens the lexer goroutine sends: those before the first ILLEGAL one.
RECURSIVE SentTokens(_)
SentTokens(tokens) ==
    IF tokens = <<>> \/ Head(tokens).Type = ILLEGAL THEN <<>>
    ELSE <<Head(tokens)>> \o SentTokens(Tail(tokens))

\* What a receive yields once the channel is closed.
Closed == <<ZeroToken, ZeroToken>>

\* The number of receives the parser has made.
Received(q, total) == total - Len(q.tokens)

\* The course of the goroutine of Parse from parser state q: one entry per
\* iteration of its loop, with the statement parsed, the number of receives
\* made when the iteration ends, and how it ends ("send", "nil" for a nil
\* statement that is not sent, "fatal", "hang"), and a last entry "close".
RECURSIVE Goroutine(_, _)
Goroutine(q, total) ==
    IF q.currentToken.Type = EOF
    THEN <<[end |-> "close", at |-> Received(q, total), n |-> Nil]>>
    ELSE LET s == parse("parseStatement", q, Nil)
         IN  IF s.p.fatal
             THEN <<[end |-> "fatal", at |-> Received(s.p, total), n |-> Nil]>>
             ELSE IF s.p.hang \/ Pos(s.p) = Pos(q)
             THEN <<[end |-> "hang", at |-> Received(s.p, total), n |-> Nil]>>
             ELSE <<[end |-> IF s.n # Nil THEN "send" ELSE "nil",
                     at |-> Received(s.p, total), n |-> s.n]>>
                      \o Goroutine(s.p, total)

Course(input) ==
    LET tokens == SentTokens(PipeTokens(input)) \o Closed
    IN  Goroutine(next(next(NewParser(tokens))), Len(tokens))

\* mpc is the calling thread: "next1", "next2" (in the first and second next
\* of Parse), "receive" (at the range over the statements), "evaluate",
\* "returned", "panic".  ppc is the goroutine of Parse: "none" (not started),
\* "parse", "next" (in a receive of next), "send", "closed", "fatal", "hang".
\* lpc is the goroutine of Lex: "lex", "send", "closed", "fatal".  lexed is
\* the number of tokens the lexer has made, recv the number of receives of
\* next, k the number of iterations of the goroutine of Parse that have
\* ended, done the number of statements evaluated to the end, exit whether
\* the process is gone (log.Fatalf, a panic, or the return of main).
NewPipeline ==
    [mpc |-> "next1", ppc |-> "none", lpc |-> "lex", lexed |-> 0, recv |-> 0,
     k |-> 0, done |-> 0, exit |-> FALSE]

InitPipe ==
    /\ prog \in PipePrograms
    /\ l = NewLexer(<<>>)
    /\ rt = NoRoundTrip
    /\ pl = NewPipeline
    /\ p = NewParser(<<>>)
    /\ pc = "new"
    /\ statement = Nil
    /\ ev = NewEval
    /\ value = Nil
    /\ epc = "eval"
    /\ evaluated = <<>>

Alive == pl.mpc # "none" /\ ~pl.exit

\* One iteration of the loop of Lex up to its send: the next token is made;
\* an ILLEGAL one ends the process.
LexerLex ==
    /\ Alive /\ pl.lpc = "lex"
    /\ pl.lexed < Len(PipeTokens(prog.src))
    /\ LET token == PipeTokens(prog.src)[pl.lexed + 1]
       IN  pl' = IF token.Type = ILLEGAL
                 THEN [pl EXCEPT !.lpc = "fatal", !.exit = TRUE]
                 ELSE [pl EXCEPT !.lpc = "send", !.lexed = @ + 1]
    /\ UNCHANGED <<rt, l, prog, p, pc, statement, ev, value, epc, evaluated>>

\* The return of the goroutine of Lex after the EOF token is sent: the
\* deferred close(tokens).
LexerClose ==
    /\ Alive /\ pl.lpc = "lex"
    /\ pl.lexed = Len(PipeTokens(prog.src))
    /\ pl' = [pl EXCEPT !.lpc = "closed"]
    /\ UNCHANGED <<rt, l, prog, p, pc, statement, ev, value, epc, evaluated>>

\* The lexer's side of a receive of next: the pending send completes, or the
\* channel is closed and yields the zero Token.
Receive(q) ==
    [q EXCEPT !.recv = @ + 1, !.lpc = IF @ = "send" THEN "lex" ELSE @]

\* Parse with its goroutine started before the second next.
Parser_ParseStartsFirst(mpc) ==
    IF mpc = "next1" THEN [mpc |-> "next2", ppc |-> "parse"]
    ELSE [mpc |-> "receive", ppc |-> "parse"]

\* The calling thread after a next of Parse: after the second one the
\* goroutine is started and Parse returns the channel to the range of Eval.
Parser_Parse(mpc) ==
    IF mpc = "next1" THEN [mpc |-> "next2", ppc |-> "none"]
    ELSE [mpc |-> "receive", ppc |-> "parse"]

\* A next of Parse on the calling thread.
ParseNext ==
    /\ Alive /\ pl.mpc \in {"next1", "next2"}
    /\ pl.lpc \in {"send", "closed"}
    /\ pl' = [Receive(pl) EXCEPT !.mpc = Parser_Parse(pl.mpc).mpc,
                                  !.ppc = Parser_Parse(pl.mpc).ppc]
    /\ UNCHANGED <<rt, l, prog, p, pc, statement, ev, value, epc, evaluated>>

\* The goroutine of Parse runs up to its next channel operation, or to the
\* end of its loop.
GoroutineRun ==
    /\ Alive /\ pl.ppc = "parse"
    /\ LET it == Course(prog.src)[pl.k + 1]
       IN  pl' = IF pl.recv < it.at THEN [pl EXCEPT !.ppc = "next"]
                 ELSE IF it.end = "send" THEN [pl EXCEPT !.ppc = "send"]
                 ELSE IF it.end = "nil" THEN [pl EXCEPT !.k = @ + 1]
                 ELSE IF it.end = "close" THEN [pl EXCEPT !.ppc = "closed"]
                 ELSE IF it.end = "fatal" THEN [pl EXCEPT !.ppc = "fatal", !.exit = TRUE]
                 ELSE [pl EXCEPT !.ppc = "hang"]
    /\ UNCHANGED <<rt, l, prog, p, pc, statement, ev, value, epc, evaluated>>

\* A next of the goroutine of Parse.
GoroutineNext ==
    /\ Alive /\ pl.ppc = "next"
    /\ pl.lpc \in {"send", "closed"}
    /\ pl' = [Receive(pl) EXCEPT !.ppc = "parse"]
    /\ UNCHANGED <<rt, l, prog, p, pc, statement, ev, value, epc, evaluated>>

\* statements <- statement meets the receive of the range of Eval.
SendStatement ==
    /\ Alive /\ pl.ppc = "send" /\ pl.mpc = "receive"
    /\ statement' = Course(prog.src)[pl.k + 1].n
    /\ evaluated' = Append(evaluated, statement')
    /\ pl' = [pl EXCEPT !.ppc = "parse", !.k = @ + 1, !.mpc = "evaluate"]
    /\ UNCHANGED <<rt, l, prog, p, pc, ev, value, epc>>

\* The body of the range of Eval: the received statement is evaluated in the
\* top-level scope.
PipeEvalStatement ==
    /\ Alive /\ pl.mpc = "evaluate"
    /\ LET r == eval("evalStatement", statement, 1, ev)
       IN  /\ ev' = r.e
           /\ value' = IF Stopped(r.e) THEN value ELSE r.v
           /\ pl' = IF Stopped(r.e) THEN [pl EXCEPT !.mpc = "panic", !.exit = TRUE]
                    ELSE [pl EXCEPT !.mpc = "receive", !.done = @ + 1]
    /\ statement' = Nil
    /\ UNCHANGED <<rt, l, prog, p, pc, epc, evaluated>>

\* The range of Eval ends when the channel is closed: Eval returns and main
\* with it.
PipeReturn ==
    /\ Alive /\ pl.mpc = "receive" /\ pl.ppc = "closed"
    /\ pl' = [pl EXCEPT !.mpc = "returned", !.exit = TRUE]
    /\ UNCHANGED <<rt, l, prog, p, pc, statement, ev, value, epc, evaluated>>

NextPipe ==
    LexerLex \/ LexerClose \/ ParseNext \/ GoroutineRun \/ GoroutineNext
        \/ SendStatement \/ PipeEvalStatement \/ PipeReturn

SpecPipe == InitPipe /\ [][NextPipe]_vars

(***************************************************************************)
(* Properties of the three threads                                         *)
(***************************************************************************)
\* The number of statements Eval has asked for: those it has received, and
\* the one it is waiting for (the call of Parse asks for the first).
Asked ==
    Len(evaluated) + (IF pl.mpc \in {"next1", "next2", "receive"} THEN 1 ELSE 0)

\* The iterations of the goroutine of Parse that end in a send.
Sends(course) == SelectSeq(course, LAMBDA it : it.end = "send")

\* The number of receives the parser has made when the j-th statement is
\* ready to be sent (its two tokens of lookahead included), or when its loop
\* ends if there is no j-th statement.
NeededFor(course, j) ==
    IF j <= Len(Sends(course)) THEN Sends(course)[j].at
    ELSE course[Len(course)].at

\* C23: the pipeline is pull-based: the parser has received, and the lexer
\* has made, no token beyond those needed for the statements Eval has asked
\* for so far.
C23_PullBased ==
    pl.mpc # "none" =>
        /\ pl.recv <= NeededFor(Course(prog.src), Asked)
        /\ pl.lexed <= NeededFor(Course(prog.src), Asked)

\* What each thread touches at its position: the lexer goroutine the reader
\* while lexing and the token channel in its send; Parser.next the parser's
\* currentToken and peekToken and the token channel, the parse methods the
\* parser's fields, the send the statement channel; the range of Eval the
\* statement channel, evalStatement the scopes.
LexerAccess ==
    IF pl.exit THEN {}
    ELSE IF pl.lpc = "lex" THEN {"reader"}
    ELSE IF pl.lpc = "send" THEN {"tokens"}
    ELSE {}

GoroutineAccess ==
    IF pl.exit THEN {}
    ELSE IF pl.ppc = "parse" THEN {"parser"}
    ELSE IF pl.ppc = "next" THEN {"parser", "tokens"}
    ELSE IF pl.ppc = "send" THEN {"statements"}
    ELSE {}

CallerAccess ==
    IF pl.exit THEN {}
    ELSE IF pl.mpc \in {"next1", "next2"} THEN {"parser", "tokens"}
    ELSE IF pl.mpc = "receive" THEN {"statements"}
    ELSE IF pl.mpc = "evaluate" THEN {"scope"}
    ELSE {}

Channels == {"tokens", "statements"}

Aborted == pl.mpc # "none" /\ (pl.lpc = "fatal" \/ pl.ppc = "fatal")

\* C30: when the run aborts because of an unrecognized character or a
\* missing token in top-level statement k, the k - 1 statements before it
\* have been evaluated to the end.
C30_EarlierStatementsEvaluated == Aborted => pl.done = prog.a - 1

====
